---- MODULE Spec2Model ----
(***************************************************************************)
(* Guest memory plane of the Firecracker fork roypat/firecracker.           *)
(*                                                                         *)
(* Part I  : the example userspace page-fault handler                      *)
(*           (src/firecracker/examples/uffd/uffd_utils.rs).                *)
(* Part II : the dirty-page snapshot engine                                *)
(*           (src/vmm/src/vstate/memory.rs, dump_dirty and friends).       *)
(*                                                                         *)
(* Part III: the full dump and the restore from it                         *)
(*           (src/vmm/src/vstate/memory.rs, dump, describe, create).       *)
(* Part IV : dirty tracking (memory.rs, mark_dirty, reset_dirty, ...).     *)
(* Part V  : VM creation and memory-slot registration                      *)
(*           (src/vmm/src/vstate/vm.rs, vm/mod.rs, guest_memfd.rs).        *)
(* Part VI : the region mapper and the memory-state descriptor             *)
(*           (memory.rs, create, describe, GuestMemoryState).              *)
(* Part VII: the bounce-buffer adapter (memory.rs, MaybeBounce).           *)
(* Part VIII: slices of a region (memory.rs, KvmRegion::get_slice).        *)
(* Part IX : the initrd loader (src/vmm/src/initrd.rs).                    *)
(* Part X  : the sealed memory file (memory.rs, create_memfd).             *)
(* Part XI : dirty tracking and dump_dirty under concurrent use.           *)
(* Part XII: the slot a region carries and the slot it is registered      *)
(*           under (memory.rs from_mmap_region, vm.rs).                    *)
(*                                                                         *)
(* Every part has its own specification (SpecUffd, SpecDump, SpecImage,    *)
(* SpecTrack, SpecVm, SpecMapper, SpecBounce, SpecSlice, SpecWrite,        *)
(* SpecInitrd, SpecMemfd, SpecConc, SpecSlots); the variables of the       *)
(* other parts stay at their idle value.                                   *)
(***************************************************************************)
EXTENDS Integers, Sequences, FiniteSets, TLC

VARIABLES
    \* ---- Part I: page-fault handler process ----
    pc,             \* "attach" | "poll" | "aborted" : position of the handler process
    mappings,       \* handshake message: Seq of GuestRegionUffdMapping
    backing_size,   \* size of the backing memory file (create_pf_handler: `size`)
    fault_size,     \* second argument of handle_faults
    mem_regions,    \* UffdPfHandler.mem_regions: Seq of [mapping, page_states]
    uffd_ops,       \* operations issued on the uffd while handling the last event
    last_event,     \* the event the loop read last (history)
    prev_regions,   \* mem_regions before the last event was handled (history)
    \* ---- Part II: dirty-page dump ----
    gm_regions,     \* GuestMemoryMmap: Seq of KvmRegion, ascending guest address
    fc_bitmap,      \* per region: the monitor-owned AtomicBitmap (set of dirty pages)
    last_dump,      \* the dump_dirty call that just returned, NoDump after any
                    \* other operation (history)
    \* ---- Part III: full dump and restore ----
    mem_data,       \* per region: the content of its host mapping, one value per page
    mem_file,       \* the file the dump that just returned wrote, NoFile after any
                    \* other operation on the memory (history)
    restored,       \* the memory rebuilt from mem_file, NoRestore before
    \* ---- Part IV: dirty tracking ----
    last_op,        \* the operation on the collection that just returned (history)
    \* ---- Part V: VM creation and memory-slot registration ----
    kvm,            \* the host: [max_nr_memslots, calls]; calls: the create calls
                    \* made on /dev/kvm and the sleeps between them
    vm,             \* the Vm: [rev, pc, attempt, max_memslots, guest_memory, error,
                    \* calls]; calls: the ioctls issued on the VM fd
    vm_input,       \* the memory handed to memory_init (history)
    \* ---- Part VI: region mapper and memory-state descriptor ----
    mapper,         \* the call of create that just returned: its arguments and
                    \* its result (regions or error, the mmap calls made)
    collection,     \* the GuestMemoryMmap built from the regions create returned
    descr,          \* the GuestMemoryState described last, its serialized form
                    \* and what was deserialized from it
    \* ---- Part VII: bounce-buffer adapter ----
    bounce,         \* the MaybeBounce<T, N>: [N, persistent_buffer (Some or None)]
    target,         \* its target: a byte stream that is read from or written to,
                    \* with the calls made on it during the last transfer
    xfer,           \* the transfer that just returned (history)
    \* ---- Part VIII: slices of a region ----
    slice,          \* the get_slice call that just returned and what was done
                    \* with the slice it handed out (history)
    \* ---- Part IX: initrd loader ----
    initrd,         \* the guest memory and the reader of from_reader, and the
                    \* call that just returned (history)
    \* ---- Part X: sealed memory file ----
    memfd,          \* the memfd: [len, seals, hugetlb] and the call made on it
                    \* last (history)
    \* ---- Part XI: concurrent use ----
    threads,        \* per thread: the mark_dirty call it is in and how far it is
    dumper          \* the thread in dump_dirty: its position and what it wrote

uffd_vars == <<pc, mappings, backing_size, fault_size, mem_regions, uffd_ops,
               last_event, prev_regions>>
dump_vars == <<gm_regions, fc_bitmap, last_dump>>
image_vars == <<mem_data, mem_file, restored>>
track_vars == <<last_op>>
\* The variables of the parts after Part II.
vm_vars == <<kvm, vm, vm_input>>
mapper_vars == <<mapper, collection, descr>>
\* The variables of the parts after Part V.
bounce_vars == <<bounce, target, xfer>>
slice_vars == <<slice>>
\* The variables of the parts after Part VI.
\* The variables of the parts after Part VIII.
tail_vars == <<initrd, memfd, threads, dumper>>
after_mapper_vars == <<bounce_vars, slice_vars, tail_vars>>
later_vars == <<mapper_vars, after_mapper_vars>>
other_vars == <<image_vars, track_vars, vm_vars, later_vars>>
vars == <<uffd_vars, dump_vars, other_vars>>

(***************************************************************************)
(* Part I.  Userspace page-fault handler                                   *)
(***************************************************************************)

\* handle_faults(4096, ...): the page size that keys the page-state tables.
PAGE_SIZE == 4096

\* The fault sizes of the two handler binaries.  The 2 MiB of
\* valid_2m_handler (512 pages) is scaled down to 2 pages: what the model
\* keeps is fault_size > page_size, both powers of two.
FAULT_SIZE_4K == PAGE_SIZE
FAULT_SIZE_2M == 2 * PAGE_SIZE
FaultSizes == {FAULT_SIZE_4K, FAULT_SIZE_2M}

\* Largest number of pages of the first region of a handshake.
UffdMaxPages == 2

MemPageState == {"Uninitialized", "FromFile", "Removed", "Anonymous"}

NoEvent == [kind |-> "None"]

\* addr & !(len - 1), for len a power of two (both fault sizes are).
AlignDown(addr, len) == addr - (addr % len)

RECURSIVE SumSizes(_)
\* mappings.iter().map(|r| r.size).sum()
SumSizes(ms) == IF ms = <<>> THEN 0 ELSE Head(ms).size + SumSizes(Tail(ms))

\* GuestRegionUffdMapping
Mapping(base, size, offset) ==
    [base_host_virt_addr |-> base, size |-> size, offset |-> offset]

\* The handshake messages the VMM may send: one or two regions, page-aligned
\* bases (they are mmap results), the first base either a multiple of every
\* fault size or only of the page size, regions adjacent or one page apart,
\* file offsets cumulative (the backing file is the concatenation of the
\* regions).
Handshakes ==
    LET bases == {4 * PAGE_SIZE, 5 * PAGE_SIZE}
        one == { <<Mapping(b, n * PAGE_SIZE, 0)>> :
                    b \in bases, n \in 1..UffdMaxPages }
        two == { <<Mapping(b, n * PAGE_SIZE, 0),
                   Mapping(b + n * PAGE_SIZE + g * PAGE_SIZE, PAGE_SIZE, n * PAGE_SIZE)>> :
                    b \in bases, n \in 1..UffdMaxPages, g \in {0, 1} }
    IN  one \cup two

\* create_mem_regions: the keys inserted by the while loop for one mapping.
PageKeys(r, page_size) ==
    { r.base_host_virt_addr + k * page_size :
        k \in 0..(((r.size + page_size - 1) \div page_size) - 1) }

create_mem_regions(ms, page_size) ==
    [i \in DOMAIN ms |->
        [mapping |-> ms[i],
         page_states |-> [k \in PageKeys(ms[i], page_size) |-> "Uninitialized"]]]

\* update_mem_state_mappings with the end of the range included.
update_mem_state_mappings_inclusive(regions, start, end, state) ==
    [i \in DOMAIN regions |->
        [regions[i] EXCEPT !.page_states =
            [k \in DOMAIN @ |-> IF k >= start /\ k <= end THEN state ELSE @[k]]]]

\* UffdPfHandler::update_mem_state_mappings
update_mem_state_mappings(regions, start, end, state) ==
    [i \in DOMAIN regions |->
        [regions[i] EXCEPT !.page_states =
            [k \in DOMAIN @ |-> IF k >= start /\ k < end THEN state ELSE @[k]]]]

\* UffdPfHandler::populate_from_file: the uffd.copy call it issues.  src is
\* given as an offset from backing_buffer, i.e. an offset in the backing file.
populate_from_file(region, dst, len) ==
    [kind |-> "copy",
     src  |-> 0,
     dst  |-> region.mapping.base_host_virt_addr,
     len  |-> region.mapping.size]

\* UffdPfHandler::zero_out: the uffd.zeropage call it issues.
zero_out(addr, len) ==
    [kind |-> "zero", src |-> 0, dst |-> addr, len |-> len]

RECURSIVE FindRegion(_, _, _)
\* serve_pf: the first region, in order, whose page_states has the key
\* (0 when the loop falls through to the panic).
FindRegion(regions, key, i) ==
    IF i > Len(regions) THEN 0
    ELSE IF key \in DOMAIN regions[i].page_states THEN i
    ELSE FindRegion(regions, key, i + 1)

\* serve_pf looking the faulting address up without aligning it.
serve_pf_unaligned(regions, addr, len, ok) ==
    LET i == FindRegion(regions, addr, 1)
    IN  IF i = 0
        THEN [panic |-> TRUE, ops |-> <<>>, regions |-> regions]
        ELSE LET st == regions[i].page_states[addr]
                 fromFile == st \in {"Uninitialized", "FromFile"}
                 op == IF fromFile
                       THEN populate_from_file(regions[i], addr, len)
                       ELSE zero_out(addr, len)
             IN  IF ~ok
                 THEN [panic |-> TRUE, ops |-> <<op>>, regions |-> regions]
                 ELSE [panic |-> FALSE, ops |-> <<op>>,
                       regions |-> update_mem_state_mappings(
                                      regions, addr, addr + len,
                                      IF fromFile THEN "FromFile" ELSE "Anonymous")]

\* serve_pf zeroing an address it finds in no region instead of panicking.
serve_pf_lenient(regions, addr, len, ok) ==
    LET fault_page_addr == AlignDown(addr, len)
        i == FindRegion(regions, fault_page_addr, 1)
        st == IF i = 0 THEN "Removed" ELSE regions[i].page_states[fault_page_addr]
        fromFile == st \in {"Uninitialized", "FromFile"}
        op == IF fromFile
              THEN populate_from_file(regions[i], fault_page_addr, len)
              ELSE zero_out(fault_page_addr, len)
    IN  IF ~ok
        THEN [panic |-> TRUE, ops |-> <<op>>, regions |-> regions]
        ELSE [panic |-> FALSE, ops |-> <<op>>,
              regions |-> update_mem_state_mappings(
                             regions, fault_page_addr, fault_page_addr + len,
                             IF fromFile THEN "FromFile" ELSE "Anonymous")]

\* UffdPfHandler::serve_pf.  ok: whether the uffd operation succeeds (a
\* failed copy/zeropage, or one reporting 0 bytes, panics).
serve_pf(regions, addr, len, ok) ==
    LET fault_page_addr == AlignDown(addr, len)
        i == FindRegion(regions, fault_page_addr, 1)
    IN  IF i = 0
        THEN [panic |-> TRUE, ops |-> <<>>, regions |-> regions]
        ELSE LET st == regions[i].page_states[fault_page_addr]
                 fromFile == st \in {"Uninitialized", "FromFile"}
                 op == IF fromFile
                       THEN populate_from_file(regions[i], fault_page_addr, len)
                       ELSE zero_out(fault_page_addr, len)
             IN  IF ~ok
                 THEN [panic |-> TRUE, ops |-> <<op>>, regions |-> regions]
                 ELSE [panic |-> FALSE, ops |-> <<op>>,
                       regions |-> update_mem_state_mappings(
                                      regions, fault_page_addr, fault_page_addr + len,
                                      IF fromFile THEN "FromFile" ELSE "Anonymous")]

\* Addresses the kernel may report: every tracked page's first and second
\* byte, and one page below and one above the registered regions.
AllKeys(ms) == UNION { PageKeys(ms[i], PAGE_SIZE) : i \in DOMAIN ms }
FaultAddrs(ms) ==
    LET keys == AllKeys(ms)
        lo == CHOOSE k \in keys : \A j \in keys : k <= j
        hi == CHOOSE k \in keys : \A j \in keys : k >= j
    IN  keys \cup { k + 1 : k \in keys } \cup {lo - PAGE_SIZE, hi + PAGE_SIZE}
\* Page boundaries for Remove ranges.
RemoveBounds(ms) ==
    LET keys == AllKeys(ms)
    IN  keys \cup { k + PAGE_SIZE : k \in keys }

UffdIdle ==
    /\ pc = "idle"
    /\ mappings = <<>>
    /\ backing_size = 0
    /\ fault_size = FAULT_SIZE_4K
    /\ mem_regions = <<>>
    /\ uffd_ops = <<>>
    /\ last_event = NoEvent
    /\ prev_regions = <<>>

\* create_pf_handler up to the accept: the file is mapped, the handshake
\* message is in flight.
UffdInit ==
    /\ pc = "attach"
    /\ mappings \in Handshakes
    /\ backing_size \in { SumSizes(mappings) - PAGE_SIZE, SumSizes(mappings),
                          SumSizes(mappings) + PAGE_SIZE }
    /\ fault_size \in FaultSizes
    /\ mem_regions = <<>>
    /\ uffd_ops = <<>>
    /\ last_event = NoEvent
    /\ prev_regions = <<>>

memsize_fits(ms, size) == SumSizes(ms) <= size

\* from_unix_stream: assert_eq!(memsize, size)
memsize_matches(ms, size) == SumSizes(ms) = size

\* UffdPfHandler::from_unix_stream
Attach ==
    /\ pc = "attach"
    /\ IF ~memsize_matches(mappings, backing_size)
       THEN /\ pc' = "aborted"           \* assert_eq!(memsize, size)
            /\ mem_regions' = mem_regions
       ELSE /\ pc' = "poll"
            /\ mem_regions' = create_mem_regions(mappings, PAGE_SIZE)
    /\ UNCHANGED <<mappings, backing_size, fault_size, uffd_ops, last_event,
                   prev_regions, dump_vars, other_vars>>

\* handle_faults: Event::Pagefault
HandlePagefault ==
    /\ pc = "poll"
    /\ \E addr \in FaultAddrs(mappings), ok \in BOOLEAN :
         LET r == serve_pf(mem_regions, addr, fault_size, ok)
         IN  /\ last_event' = [kind |-> "Pagefault", addr |-> addr, ok |-> ok]
             /\ prev_regions' = mem_regions
             /\ mem_regions' = r.regions
             /\ uffd_ops' = r.ops
             /\ pc' = IF r.panic THEN "aborted" ELSE "poll"
    /\ UNCHANGED <<mappings, backing_size, fault_size, dump_vars, other_vars>>

\* handle_faults: Event::Remove
HandleRemove ==
    /\ pc = "poll"
    /\ \E start \in RemoveBounds(mappings), end \in RemoveBounds(mappings) :
         /\ start < end
         /\ last_event' = [kind |-> "Remove", start |-> start, end |-> end]
         /\ prev_regions' = mem_regions
         /\ mem_regions' = update_mem_state_mappings(mem_regions, start, end, "Removed")
         /\ uffd_ops' = <<>>
         /\ pc' = "poll"
    /\ UNCHANGED <<mappings, backing_size, fault_size, dump_vars, other_vars>>

\* handle_faults: any other event kind (Fork, Remap, Unmap)
HandleOther ==
    /\ pc = "poll"
    /\ last_event' = [kind |-> "Other"]
    /\ prev_regions' = mem_regions
    /\ uffd_ops' = <<>>
    /\ pc' = "aborted"
    /\ UNCHANGED <<mappings, backing_size, fault_size, mem_regions, dump_vars, other_vars>>

(***************************************************************************)
(* Part I.  Properties of the page-fault handler                           *)
(***************************************************************************)

\* The state of tracked page k in a region list.
StateAt(regions, k) == regions[FindRegion(regions, k, 1)].page_states[k]

TrackedKeys == UNION { DOMAIN mem_regions[i].page_states : i \in DOMAIN mem_regions }

\* a lies inside a registered region
InRegion(a) ==
    \E i \in DOMAIN mappings :
        /\ mappings[i].base_host_virt_addr <= a
        /\ a < mappings[i].base_host_virt_addr + mappings[i].size

\* The region containing a (only used where InRegion(a)).
RegionOf(a) ==
    CHOOSE i \in DOMAIN mappings :
        /\ mappings[i].base_host_virt_addr <= a
        /\ a < mappings[i].base_host_virt_addr + mappings[i].size

IsPagefault == last_event.kind = "Pagefault"
IsRemove == last_event.kind = "Remove"
\* page_base of the last page fault
PageBase == AlignDown(last_event.addr, fault_size)

\* C1 (as claimed): every tracked page starts Uninitialized at attach, and a
\* Pagefault or Remove event changes the state of a tracked page only along
\* the transition table: Pagefault takes Uninitialized/FromFile to FromFile
\* and Removed/Anonymous to Anonymous, Remove takes any state to Removed.
C1_TransitionTable ==
    /\ (pc = "poll" /\ last_event = NoEvent) =>
            \A k \in TrackedKeys : StateAt(mem_regions, k) = "Uninitialized"
    /\ (IsPagefault \/ IsRemove) =>
            \A k \in TrackedKeys :
                LET s == StateAt(prev_regions, k)
                    t == StateAt(mem_regions, k)
                IN  t # s =>
                      IF IsRemove THEN t = "Removed"
                      ELSE \/ s \in {"Uninitialized", "FromFile"} /\ t = "FromFile"
                           \/ s \in {"Removed", "Anonymous"} /\ t = "Anonymous"

\* C2 (as claimed): a page fault whose page_base is a page in state
\* Uninitialized or FromFile issues exactly one copy, to page_base, of
\* fault_size bytes, from file offset region.offset + (page_base - region.base).
C2_CopyFromFile ==
    (IsPagefault /\ PageBase \in TrackedKeys
        /\ StateAt(prev_regions, PageBase) \in {"Uninitialized", "FromFile"}) =>
        LET r == mappings[RegionOf(PageBase)]
        IN  uffd_ops = << [kind |-> "copy",
                           src  |-> r.offset + (PageBase - r.base_host_virt_addr),
                           dst  |-> PageBase,
                           len  |-> fault_size] >>

\* The tracked pages an operation's destination range covers.
Covers(op, k) == op.dst <= k /\ k < op.dst + op.len

\* C3 (as claimed): a page fault that hits a page in state Removed or
\* Anonymous issues exactly one zero operation for
\* [page_base, page_base + fault_size) and no copy, so that no copy ever
\* lands on a page the guest returned.
C3_ZeroAfterRemove ==
    IsPagefault =>
        LET hit == AlignDown(last_event.addr, PAGE_SIZE)
        IN  /\ (hit \in TrackedKeys
                   /\ StateAt(prev_regions, hit) \in {"Removed", "Anonymous"}) =>
                uffd_ops = << [kind |-> "zero", src |-> 0, dst |-> PageBase,
                               len |-> fault_size] >>
            /\ \A n \in DOMAIN uffd_ops : \A k \in TrackedKeys :
                  (uffd_ops[n].kind = "copy" /\ Covers(uffd_ops[n], k)) =>
                      StateAt(prev_regions, k) \notin {"Removed", "Anonymous"}

\* C36 (as claimed): a tracked page that a Remove event put in state Removed
\* is, after every later event, in state Removed or Anonymous and is never
\* the destination of a copy from the backing file; a fault on it is
\* served by a zero operation, also when it is not the first page of its
\* fault_size-aligned chunk.
C36_RemovedStaysZeroed ==
    (IsPagefault \/ IsRemove) =>
        \A k \in TrackedKeys :
            StateAt(prev_regions, k) \in {"Removed", "Anonymous"} =>
                /\ StateAt(mem_regions, k) \in {"Removed", "Anonymous"}
                /\ \A n \in DOMAIN uffd_ops :
                      Covers(uffd_ops[n], k) => uffd_ops[n].kind = "zero"
                /\ (IsPagefault /\ pc # "aborted"
                        /\ AlignDown(last_event.addr, PAGE_SIZE) = k) =>
                      /\ uffd_ops # <<>>
                      /\ \A n \in DOMAIN uffd_ops : uffd_ops[n].kind = "zero"

\* C4: a Remove event for [start, end) puts every tracked page with address
\* in [start, end) in state Removed, in every region, leaves every other
\* page's state unchanged, and issues no operation on the uffd.
C4_RemoveFrame ==
    IsRemove =>
        /\ \A i \in DOMAIN mem_regions :
              /\ DOMAIN mem_regions[i].page_states = DOMAIN prev_regions[i].page_states
              /\ \A k \in DOMAIN mem_regions[i].page_states :
                    mem_regions[i].page_states[k] =
                        IF last_event.start <= k /\ k < last_event.end
                        THEN "Removed"
                        ELSE prev_regions[i].page_states[k]
        /\ uffd_ops = <<>>

\* C4 witness: a Remove that changed a page in each of two regions and left
\* an already populated page outside its range untouched.
C4_Witness ==
    /\ IsRemove
    /\ Len(mem_regions) = 2
    /\ \A i \in DOMAIN mem_regions :
          \E k \in DOMAIN mem_regions[i].page_states :
              /\ last_event.start <= k /\ k < last_event.end
              /\ prev_regions[i].page_states[k] # "Removed"
    /\ \E k \in TrackedKeys : k < last_event.start /\ StateAt(mem_regions, k) = "FromFile"

\* C5: a page fault whose page_base lies outside every registered region,
\* and an event that is neither Pagefault nor Remove, abort the handler
\* with no operation issued and no page state changed.
C5_FatalEvents ==
    ((IsPagefault /\ ~InRegion(PageBase)) \/ last_event.kind = "Other") =>
        /\ pc = "aborted"
        /\ uffd_ops = <<>>
        /\ mem_regions = prev_regions

\* C5 witness: the handler served events, then a fault inside a region whose
\* page_base is outside every region aborted it.
C5_Witness ==
    /\ IsPagefault
    /\ ~InRegion(PageBase)
    /\ InRegion(last_event.addr)
    /\ pc = "aborted"
    /\ \E k \in TrackedKeys : StateAt(mem_regions, k) = "Anonymous"

\* C5 witness for the other event kinds.
C5_WitnessOther ==
    /\ last_event.kind = "Other"
    /\ pc = "aborted"
    /\ \E k \in TrackedKeys : StateAt(mem_regions, k) = "FromFile"

\* C6: when the region sizes of the handshake do not sum to the size of the
\* backing file, the handler aborts during attach: it never builds
\* page-state tables, never waits on the uffd and never reads an event.
C6_SizeMismatchAborts ==
    SumSizes(mappings) # backing_size =>
        /\ pc \in {"attach", "aborted"}
        /\ mem_regions = <<>>
        /\ last_event = NoEvent
        /\ uffd_ops = <<>>

\* C6 witness: the handler aborted on a backing file larger than the regions.
C6_Witness ==
    /\ pc = "aborted"
    /\ SumSizes(mappings) < backing_size
    /\ Len(mappings) = 2

\* C7 (as claimed): after a Remove event, and after a Pagefault event whose
\* address lies inside a registered region and whose uffd operation
\* succeeds, the handler is back waiting on the uffd.
C7_NeverAborts ==
    (IsRemove \/ (IsPagefault /\ last_event.ok /\ InRegion(last_event.addr))) =>
        pc = "poll"

\* C7 (amended): after a Remove event, and after a Pagefault event whose
\* uffd operation succeeds and whose page_base is a tracked page, the
\* handler is back waiting on the uffd; page_base is a tracked page for
\* every fault address inside a region whose base is a multiple of
\* fault_size.
C7_AlignedNeverAborts ==
    /\ (IsRemove \/ (IsPagefault /\ last_event.ok /\ PageBase \in TrackedKeys)) =>
            pc = "poll"
    /\ (IsPagefault /\ last_event.ok /\ InRegion(last_event.addr)
           /\ mappings[RegionOf(last_event.addr)].base_host_virt_addr % fault_size = 0) =>
            pc = "poll"

\* C7 witness: the 2-page-fault handler served a fault at an address that is
\* not chunk-aligned, in a region whose base is not a multiple of fault_size.
C7_Witness ==
    /\ IsPagefault
    /\ last_event.ok
    /\ pc = "poll"
    /\ fault_size = FAULT_SIZE_2M
    /\ PageBase # last_event.addr
    /\ InRegion(last_event.addr)
    /\ mappings[RegionOf(last_event.addr)].base_host_virt_addr % fault_size # 0

(***************************************************************************)
(* Part II.  Dirty-page dump                                               *)
(***************************************************************************)

\* get_page_size(): the host page size.
HostPageSize == 4096

\* Bits per word of the hypervisor bitmap (`for j in 0..64`), scaled down
\* from 64 so that regions of a few pages span several words and end in the
\* middle of a word.
WORD_BITS == 2

\* Largest number of pages of the first region of a collection.
DumpMaxPages == 3

NoDump == [result |-> "none"]

\* last_op when the last operation was none of the dirty-tracking ones.
NoOp == [kind |-> "none"]

\* AtomicBitmap::with_len counting whole pages only.
AtomicBitmap_with_len_floor(size) ==
    [some |-> TRUE, size |-> size \div HostPageSize, bits |-> {}]

\* AtomicBitmap::with_len(size): one bit per page, all clean.
AtomicBitmap_with_len(size) ==
    [some |-> TRUE, size |-> (size + HostPageSize - 1) \div HostPageSize, bits |-> {}]

\* region.bitmap() of a region built without dirty tracking
NoBitmap == [some |-> FALSE, size |-> 0, bits |-> {}]

\* Bitmap::dirty_at for Option<AtomicBitmap>: None is never dirty, an
\* offset past the bitmap is never dirty.
dirty_at(bitmap, offset) ==
    /\ bitmap.some
    /\ (offset \div HostPageSize) < bitmap.size
    /\ (offset \div HostPageSize) \in bitmap.bits

\* Bitmap::mark_dirty for Option<AtomicBitmap> (AtomicBitmap::set_addr_range):
\* sets the bits of the pages overlapping [offset, offset + len), dropping
\* those past the bitmap.
bitmap_mark_dirty(bitmap, offset, len) ==
    IF ~bitmap.some \/ len = 0 THEN bitmap
    ELSE [bitmap EXCEPT !.bits = @ \cup
            { n \in (offset \div HostPageSize)..((offset + len - 1) \div HostPageSize) :
                n < bitmap.size }]

\* AtomicBitmap::reset
bitmap_reset(bitmap) == [bitmap EXCEPT !.bits = {}]

\* KvmRegion as built by from_mmap_region: the fields of
\* kvm_userspace_memory_region2 the dump reads.
KvmRegion(slot, guest_phys_addr, memory_size) ==
    [slot |-> slot, guest_phys_addr |-> guest_phys_addr, memory_size |-> memory_size]

\* The collections: two regions with a one-page gap (as in test_dump_dirty),
\* slots assigned in order from 0.
Collections ==
    { << KvmRegion(0, 0, n * HostPageSize),
         KvmRegion(1, (n + 1) * HostPageSize, HostPageSize) >> :
        n \in 1..DumpMaxPages }

\* Number of pages of a region.
Pages(region) == region.memory_size \div HostPageSize

\* The hypervisor's bitmap of one slot: ceil(pages / WORD_BITS) words, bit j
\* of word i set iff page i * WORD_BITS + j is in dirty.  A word is modelled
\* by the set of its set bit positions.
KvmWords(region, dirty) ==
    [i \in 1..((Pages(region) + WORD_BITS - 1) \div WORD_BITS) |->
        { j \in 0..(WORD_BITS - 1) : ((i - 1) * WORD_BITS + j) \in dirty }]

\* The DirtyBitmap arguments: for every slot the dirty pages the hypervisor
\* logged; nothing is logged for a slot registered without
\* KVM_MEM_LOG_DIRTY_PAGES, i.e. for a region without bitmap.
DirtyBitmaps(regions, bitmaps) ==
    { [slot \in { regions[i].slot : i \in DOMAIN regions } |->
          LET i == CHOOSE n \in DOMAIN regions : regions[n].slot = slot
          IN  KvmWords(regions[i], d[i])] :
        d \in { f \in [DOMAIN regions -> SUBSET (0..(DumpMaxPages - 1))] :
                  \A i \in DOMAIN regions :
                      /\ f[i] \subseteq 0..(Pages(regions[i]) - 1)
                      /\ (~bitmaps[i].some => f[i] = {}) } }

\* (v >> j) & 1 != 0
bit_set(v, j) == j \in v

\* The writer: cursor, what was done to it, and the write call that fails
\* (0: none).
NewWriter(fail_at) == [pos |-> 0, log |-> <<>>, nwrites |-> 0, fail_at |-> fail_at, err |-> FALSE]

\* writer.seek(SeekFrom::Start(off))
writer_seek(w, off) ==
    [w EXCEPT !.pos = off, !.log = Append(@, [op |-> "seek", off |-> off])]

\* KvmRegion::get_slice followed by writer.write_all_volatile: writes the
\* bytes [start, start + size) of region idx at the cursor.  A range leaving
\* the region, or the failing write call, is an error; the failing call is
\* taken to have written nothing.
writer_write_slice(w, regions, idx, start, size) ==
    IF start + size > regions[idx].memory_size THEN [w EXCEPT !.err = TRUE]
    ELSE IF w.nwrites + 1 = w.fail_at
    THEN [w EXCEPT !.nwrites = @ + 1, !.err = TRUE]
    ELSE [w EXCEPT !.nwrites = @ + 1,
                   !.pos = @ + size,
                   !.log = Append(@, [op |-> "write", off |-> w.pos, len |-> size,
                                      region |-> idx, start |-> start])]

RECURSIVE scan_pages(_, _, _, _, _, _, _, _)
\* dump_dirty: the loops over the words i and the bits j of one region's
\* hypervisor bitmap.  st: [write_size, dirty_batch_start, w].
scan_pages(regions, idx, kvm_bitmap, firecracker_bitmap, writer_offset, i, j, st) ==
    IF st.w.err \/ i >= Len(kvm_bitmap) THEN st
    ELSE
      LET is_kvm_page_dirty == bit_set(kvm_bitmap[i + 1], j)
          page_offset == ((i * WORD_BITS) + j) * HostPageSize
          is_firecracker_page_dirty == dirty_at(firecracker_bitmap, page_offset)
          st1 ==
            IF is_kvm_page_dirty \/ is_firecracker_page_dirty
            THEN IF st.write_size = 0
                 THEN [write_size |-> HostPageSize,
                       dirty_batch_start |-> page_offset,
                       w |-> writer_seek(st.w, writer_offset + page_offset)]
                 ELSE [st EXCEPT !.write_size = @ + HostPageSize]
            ELSE IF st.write_size > 0
                 THEN [st EXCEPT !.write_size = 0,
                                 !.w = writer_write_slice(st.w, regions, idx,
                                           st.dirty_batch_start, st.write_size)]
                 ELSE st
      IN  IF j + 1 < WORD_BITS
          THEN scan_pages(regions, idx, kvm_bitmap, firecracker_bitmap,
                          writer_offset, i, j + 1, st1)
          ELSE scan_pages(regions, idx, kvm_bitmap, firecracker_bitmap,
                          writer_offset, i + 1, 0, st1)

\* dump_region without the write of the batch open at the end of the region.
dump_region_no_flush(regions, bitmaps, idx, dirty_bitmap, writer_offset, w) ==
    scan_pages(regions, idx, dirty_bitmap[regions[idx].slot], bitmaps[idx], writer_offset,
               0, 0, [write_size |-> 0, dirty_batch_start |-> 0, w |-> w]).w

\* dump_dirty: the closure run for one region.
dump_region(regions, bitmaps, idx, dirty_bitmap, writer_offset, w) ==
    LET kvm_bitmap == dirty_bitmap[regions[idx].slot]
        st == scan_pages(regions, idx, kvm_bitmap, bitmaps[idx], writer_offset, 0, 0,
                         [write_size |-> 0, dirty_batch_start |-> 0, w |-> w])
    IN  IF st.w.err THEN st.w
        ELSE IF st.write_size > 0
        THEN writer_write_slice(st.w, regions, idx, st.dirty_batch_start, st.write_size)
        ELSE st.w

RECURSIVE dump_regions_same_offset(_, _, _, _, _, _)
\* dump_regions without `writer_offset += region.len()`.
dump_regions_same_offset(regions, bitmaps, idx, dirty_bitmap, writer_offset, w) ==
    IF idx > Len(regions) THEN w
    ELSE LET w1 == dump_region(regions, bitmaps, idx, dirty_bitmap, writer_offset, w)
         IN  IF w1.err THEN w1
             ELSE dump_regions_same_offset(regions, bitmaps, idx + 1, dirty_bitmap,
                                           writer_offset, w1)

RECURSIVE dump_regions(_, _, _, _, _, _)
\* dump_dirty: self.iter().try_for_each(...), with the running writer_offset.
dump_regions(regions, bitmaps, idx, dirty_bitmap, writer_offset, w) ==
    IF idx > Len(regions) THEN w
    ELSE LET w1 == dump_region(regions, bitmaps, idx, dirty_bitmap, writer_offset, w)
         IN  IF w1.err THEN w1
             ELSE dump_regions(regions, bitmaps, idx + 1, dirty_bitmap,
                               writer_offset + regions[idx].memory_size, w1)

\* reset_dirty resetting the bitmap of the first region only.
reset_dirty_first(regions, bitmaps) ==
    [i \in DOMAIN regions |->
        IF bitmaps[i].some /\ i = 1 THEN bitmap_reset(bitmaps[i]) ELSE bitmaps[i]]

\* reset_dirty leaving out the last region.
reset_dirty_but_last(regions, bitmaps) ==
    [i \in DOMAIN regions |->
        IF bitmaps[i].some /\ i < Len(regions) THEN bitmap_reset(bitmaps[i]) ELSE bitmaps[i]]

\* GuestMemoryExtension::reset_dirty
reset_dirty(regions, bitmaps) ==
    [i \in DOMAIN regions |-> IF bitmaps[i].some THEN bitmap_reset(bitmaps[i]) ELSE bitmaps[i]]

RECURSIVE store_bits(_, _, _, _)
\* store_dirty_bitmap: the loops over the words and bits of one region.
store_bits(kvm_bitmap, bitmap, i, j) ==
    IF i >= Len(kvm_bitmap) THEN bitmap
    ELSE LET b1 == IF bit_set(kvm_bitmap[i + 1], j)
                   THEN bitmap_mark_dirty(bitmap, ((i * WORD_BITS) + j) * HostPageSize, 1)
                   ELSE bitmap
         IN  IF j + 1 < WORD_BITS
             THEN store_bits(kvm_bitmap, b1, i, j + 1)
             ELSE store_bits(kvm_bitmap, b1, i + 1, 0)

\* store_dirty_bitmap replacing the bitmaps by the hypervisor's bits.
store_dirty_bitmap_overwrite(regions, bitmaps, dirty_bitmap) ==
    [i \in DOMAIN regions |->
        store_bits(dirty_bitmap[regions[i].slot], bitmap_reset(bitmaps[i]), 0, 0)]

\* GuestMemoryExtension::store_dirty_bitmap
store_dirty_bitmap(regions, bitmaps, dirty_bitmap) ==
    [i \in DOMAIN regions |-> store_bits(dirty_bitmap[regions[i].slot], bitmaps[i], 0, 0)]

\* GuestMemoryExtension::dump_dirty: what it did to the writer, its result
\* and the monitor-owned bitmaps it leaves.
dump_dirty(regions, bitmaps, dirty_bitmap, fail_at) ==
    LET w == dump_regions(regions, bitmaps, 1, dirty_bitmap, 0, NewWriter(fail_at))
    IN  [result  |-> IF w.err THEN "err" ELSE "ok",
         log     |-> w.log,
         bitmaps |-> IF w.err
                     THEN store_dirty_bitmap(regions, bitmaps, dirty_bitmap)
                     ELSE reset_dirty(regions, bitmaps)]

\* The pages (region index, page index) that are dirty in a hypervisor bitmap.
KvmDirty(regions, dirty_bitmap) ==
    { <<i, n>> \in (DOMAIN regions) \X (0..(DumpMaxPages * WORD_BITS)) :
        /\ (n \div WORD_BITS) < Len(dirty_bitmap[regions[i].slot])
        /\ bit_set(dirty_bitmap[regions[i].slot][(n \div WORD_BITS) + 1], n % WORD_BITS) }

\* The pages that report dirty in the monitor-owned bitmaps.
FcDirty(regions, bitmaps) ==
    { <<i, n>> \in (DOMAIN regions) \X (0..(DumpMaxPages * WORD_BITS)) :
        dirty_at(bitmaps[i], n * HostPageSize) }

DumpIdle ==
    /\ gm_regions = <<>>
    /\ fc_bitmap = <<>>
    /\ last_dump = NoDump

\* A collection as built by anonymous(regions, track_dirty_pages, ..) and
\* from_mmap_region.
DumpInit ==
    /\ gm_regions \in Collections
    /\ \E track_dirty_pages \in BOOLEAN :
         fc_bitmap = [i \in DOMAIN gm_regions |->
                        IF track_dirty_pages
                        THEN AtomicBitmap_with_len(gm_regions[i].memory_size)
                        ELSE NoBitmap]
    /\ last_dump = NoDump

\* GuestMemoryExtension::dump_dirty, called with a hypervisor bitmap and a
\* writer whose fail_at-th write fails.
DumpDirty ==
    /\ gm_regions # <<>>
    /\ \E dirty_bitmap \in DirtyBitmaps(gm_regions, fc_bitmap), fail_at \in 0..3 :
         \E r \in {dump_dirty(gm_regions, fc_bitmap, dirty_bitmap, fail_at)} :
             /\ fc_bitmap' = r.bitmaps
             /\ last_dump' = [result |-> r.result, log |-> r.log,
                              dirty_bitmap |-> dirty_bitmap,
                              fc_before |-> fc_bitmap]
    /\ last_op' = NoOp
    /\ UNCHANGED <<gm_regions, uffd_vars, image_vars, vm_vars, later_vars>>

\* Bitmap::mark_dirty on one region's bitmap, as done for a write through a
\* slice of the region (get_slice hands out the bitmap slice).
RegionMarkDirty ==
    /\ gm_regions # <<>>
    /\ \E i \in DOMAIN gm_regions, n \in 0..(DumpMaxPages - 1), len \in {1, HostPageSize + 1} :
         /\ n < Pages(gm_regions[i])
         /\ fc_bitmap' = [fc_bitmap EXCEPT ![i] =
                             bitmap_mark_dirty(@, n * HostPageSize, len)]
    /\ last_dump' = NoDump
    /\ last_op' = NoOp
    /\ UNCHANGED <<gm_regions, uffd_vars, image_vars, vm_vars, later_vars>>

\* GuestMemoryExtension::reset_dirty called by the owner of the memory
ResetDirty ==
    /\ gm_regions # <<>>
    /\ fc_bitmap' = reset_dirty(gm_regions, fc_bitmap)
    /\ last_dump' = NoDump
    /\ last_op' = [kind |-> "reset_dirty",
                   was_dirty |-> FcDirty(gm_regions, fc_bitmap)]
    /\ UNCHANGED <<gm_regions, uffd_vars, image_vars, vm_vars, later_vars>>

(***************************************************************************)
(* Part II.  Properties of dump_dirty                                      *)
(***************************************************************************)

RECURSIVE PrecedingLen(_, _)
\* Sum of the lengths of the regions before region idx.
PrecedingLen(regions, idx) ==
    IF idx <= 1 THEN 0
    ELSE regions[idx - 1].memory_size + PrecedingLen(regions, idx - 1)

\* What a log wrote: <<file offset, region, page>> for every page written.
WrittenAt(log) ==
    UNION { { << log[n].off + k * HostPageSize, log[n].region,
                 (log[n].start \div HostPageSize) + k >> :
                k \in 0..((log[n].len \div HostPageSize) - 1) } :
            n \in { m \in DOMAIN log : log[m].op = "write" } }

\* The pages a log wrote.
WrittenPages(log) == { <<t[2], t[3]>> : t \in WrittenAt(log) }

\* The pages dirty in either source when the last dump_dirty was called.
DirtyBefore(d) ==
    KvmDirty(gm_regions, d.dirty_bitmap) \cup FcDirty(gm_regions, d.fc_before)

\* Where the layout of the image puts a set of pages.
ImageOf(pages) ==
    { << PrecedingLen(gm_regions, pg[1]) + pg[2] * HostPageSize, pg[1], pg[2] >> :
        pg \in pages }

Dumped == last_dump # NoDump

\* C8: dump_dirty writes a page iff it is dirty in the hypervisor bitmap of
\* the region's slot or in the monitor-owned bitmap; a written page lands at
\* (sum of the lengths of the preceding regions) + page_index * page_size;
\* nothing of a page clean in both bitmaps is written (also by a dump that
\* fails midway), and writes are whole pages.
C8_DumpDirtyWritesDirtyPages ==
    Dumped =>
        /\ WrittenAt(last_dump.log) \subseteq ImageOf(DirtyBefore(last_dump))
        /\ \A n \in DOMAIN last_dump.log :
              last_dump.log[n].op = "write" =>
                  /\ last_dump.log[n].len > 0
                  /\ last_dump.log[n].len % HostPageSize = 0
                  /\ last_dump.log[n].start % HostPageSize = 0
        /\ last_dump.result = "ok" =>
              WrittenAt(last_dump.log) = ImageOf(DirtyBefore(last_dump))

\* C8 witness: a successful dump that wrote, in the second region, a page
\* only the hypervisor reported and, in the first region, a page beyond the
\* first word that only the monitor reported, and skipped a clean page.
C8_Witness ==
    /\ Dumped
    /\ last_dump.result = "ok"
    /\ \E pg \in KvmDirty(gm_regions, last_dump.dirty_bitmap) :
          pg[1] = 2 /\ pg \notin FcDirty(gm_regions, last_dump.fc_before)
    /\ \E pg \in FcDirty(gm_regions, last_dump.fc_before) :
          /\ pg[1] = 1 /\ pg[2] >= WORD_BITS
          /\ pg \notin KvmDirty(gm_regions, last_dump.dirty_bitmap)
    /\ <<1, 0>> \notin DirtyBefore(last_dump)

\* C9, after the failed call: every page the hypervisor bitmap reported is
\* dirty in the monitor-owned bitmap and no monitor-owned bit was cleared.
C9_FoldedOnFailure ==
    (Dumped /\ last_dump.result = "err") =>
        /\ KvmDirty(gm_regions, last_dump.dirty_bitmap) \subseteq FcDirty(gm_regions, fc_bitmap)
        /\ FcDirty(gm_regions, last_dump.fc_before) \subseteq FcDirty(gm_regions, fc_bitmap)

\* C9, the next call: a dump_dirty that succeeds right after a failed one
\* writes every page that was dirty in either source before the failed one.
C9_NextDumpWrites ==
    (/\ Dumped /\ last_dump.result = "err"
     /\ last_dump' # NoDump /\ last_dump'.result = "ok") =>
        DirtyBefore(last_dump) \subseteq WrittenPages(last_dump'.log)

\* C9: when dump_dirty fails, the error is returned, the hypervisor bitmap is
\* folded into the monitor-owned bitmap without clearing any of its bits,
\* and so the next dump_dirty writes every page that was dirty in either
\* source before the failed attempt, whatever hypervisor bitmap it is given.
C9_FailureKeepsDirty == [](C9_FoldedOnFailure) /\ [][C9_NextDumpWrites]_vars

\* C9 witness: a dump failed after it had written a batch, with a page only
\* the hypervisor reported and another only the monitor reported.
C9_Witness ==
    /\ Dumped
    /\ last_dump.result = "err"
    /\ \E n \in DOMAIN last_dump.log : last_dump.log[n].op = "write"
    /\ \E pg \in KvmDirty(gm_regions, last_dump.dirty_bitmap) :
          pg \notin FcDirty(gm_regions, last_dump.fc_before)
    /\ \E pg \in FcDirty(gm_regions, last_dump.fc_before) :
          pg \notin KvmDirty(gm_regions, last_dump.dirty_bitmap)

\* C10: after dump_dirty returns success no page of any region reports
\* dirty in the monitor-owned bitmaps.
C10_CleanAfterSuccess ==
    (Dumped /\ last_dump.result = "ok") => FcDirty(gm_regions, fc_bitmap) = {}

\* C10 witness: a successful dump of a memory whose monitor-owned bitmaps
\* had dirty pages in both regions.
C10_Witness ==
    /\ Dumped
    /\ last_dump.result = "ok"
    /\ \A i \in DOMAIN gm_regions :
          \E pg \in FcDirty(gm_regions, last_dump.fc_before) : pg[1] = i

\* The maximal runs <<region, first page, last page>> of contiguous pages of
\* a set of pages, region by region.
Runs(pages) ==
    { r \in (DOMAIN gm_regions) \X (0..(DumpMaxPages - 1)) \X (0..(DumpMaxPages - 1)) :
        /\ r[2] <= r[3]
        /\ \A n \in r[2]..r[3] : <<r[1], n>> \in pages
        /\ <<r[1], r[2] - 1>> \notin pages
        /\ <<r[1], r[3] + 1>> \notin pages }

\* The positions of the seeks of a log.
Seeks(log) == { n \in DOMAIN log : log[n].op = "seek" }

\* C34: dump_dirty coalesces per region: every maximal run of contiguous
\* dirty pages of a region gives one seek, to the offset of its first page
\* in the image, followed by one write of the whole run; no write covers
\* pages of two regions, and the seek targets strictly increase.  A dump
\* that fails has done so for the runs before the failing write.
C34_CoalescedRuns ==
    Dumped =>
        LET log == last_dump.log
            runs == Runs(DirtyBefore(last_dump))
        IN  /\ \A n \in DOMAIN log :
                  IF log[n].op = "write"
                  THEN /\ n > 1 /\ log[n - 1].op = "seek"
                       /\ log[n - 1].off = log[n].off
                       /\ << log[n].region, log[n].start \div HostPageSize,
                              ((log[n].start + log[n].len) \div HostPageSize) - 1 >> \in runs
                       /\ log[n].off = PrecedingLen(gm_regions, log[n].region) + log[n].start
                  ELSE n < Len(log) => log[n + 1].op = "write"
            /\ \A m, n \in Seeks(log) : m < n => log[m].off < log[n].off
            /\ last_dump.result = "ok" => Len(log) = 2 * Cardinality(runs)
            /\ last_dump.result = "err" => Len(log) < 2 * Cardinality(runs)

\* C34 witness: a dump of two runs, adjacent in the image, one of several
\* pages up to the end of the first region and one at the start of the
\* second.
C34_Witness ==
    /\ Dumped
    /\ last_dump.result = "ok"
    /\ Len(gm_regions) >= 2
    /\ LET runs == Runs(DirtyBefore(last_dump))
       IN  /\ \E r \in runs : r[1] = 1 /\ r[2] < r[3] /\ r[3] = Pages(gm_regions[1]) - 1
           /\ \E r \in runs : r[1] = 2 /\ r[2] = 0
           /\ Len(last_dump.log) = 4

(***************************************************************************)
(* Part III.  Full dump and restore                                        *)
(***************************************************************************)

\* The byte values a guest write stores; a fresh anonymous mapping reads 0.
\* The content of a mapping is kept per page (writes are whole pages).
Bytes == {1, 2}

NoFile == [result |-> "none"]
NoRestore == [result |-> "none"]

\* Option<FileOffset> / Option<File>: None
NoFileOffset == [some |-> FALSE, file |-> "none", start |-> 0]

\* FileOffset::from_arc(file, start)
FileOffset(file, start) == [some |-> TRUE, file |-> file, start |-> start]

\* u64::MAX, scaled down from 2^64 - 1 to the largest integer of the model
\* checker (2^31 - 1): offsets and sizes are 31 bits wide.
U64_MAX == 2147483647

\* i64::MAX, scaled with it from 2^63 - 1 to 2^30 - 1.
I64_MAX == 1073741823

Min(a, b) == IF a < b THEN a ELSE b

\* GuestMemory::find_region: the index of the region that contains addr,
\* 0 for None.
find_region(regions, addr) ==
    LET hit == { i \in DOMAIN regions :
                    /\ regions[i].guest_phys_addr <= addr
                    /\ addr < regions[i].guest_phys_addr + regions[i].memory_size }
    IN  IF hit = {} THEN 0 ELSE CHOOSE i \in hit : TRUE

RECURSIVE try_access(_, _, _, _)
\* GuestMemory::try_access(count, addr, f) for an f that returns Ok(count):
\* the calls of f it makes, as [region, start, count, total].  It walks the
\* regions from cur while they are contiguous and stops at the first address
\* no region contains.
try_access(regions, count, cur, total) ==
    IF count = 0 THEN <<>>
    ELSE LET i == find_region(regions, cur)
         IN  IF i = 0 THEN <<>>
             ELSE LET start == cur - regions[i].guest_phys_addr
                      cap   == regions[i].memory_size - start
                      len   == Min(cap, count - total)
                      call  == [region |-> i, start |-> start, count |-> len,
                                total |-> total]
                  IN  IF total + len = count THEN <<call>>
                      ELSE <<call>> \o
                           try_access(regions, count,
                                      regions[i].guest_phys_addr + regions[i].memory_size,
                                      total + len)

\* The pages of a region that the bytes [start, start + count) touch.
PagesOf(start, count) ==
    IF count = 0 THEN {}
    ELSE (start \div HostPageSize)..((start + count - 1) \div HostPageSize)

\* Bytes::write on the collection (try_access with region.write): stores b
\* in the bytes try_access reaches and, through the slices' bitmap, marks
\* them dirty.  addr and len are multiples of the page size.
guest_write(regions, data, bitmaps, addr, len, b) ==
    LET calls == try_access(regions, len, addr, 0)
        CallOf(i) == { n \in DOMAIN calls : calls[n].region = i }
    IN  [data |-> [i \in DOMAIN regions |->
                     [k \in DOMAIN data[i] |->
                        IF \E n \in CallOf(i) :
                              (k - 1) \in PagesOf(calls[n].start, calls[n].count)
                        THEN b ELSE data[i][k]]],
         bitmaps |-> [i \in DOMAIN regions |->
                        IF CallOf(i) = {} THEN bitmaps[i]
                        ELSE LET c == calls[CHOOSE n \in CallOf(i) : TRUE]
                             IN  bitmap_mark_dirty(bitmaps[i], c.start, c.count)],
         calls |-> calls]

RECURSIVE dump_first_page(_, _, _)
\* dump writing one page of every region instead of its length.
dump_first_page(regions, idx, w) ==
    IF idx > Len(regions) \/ w.err THEN w
    ELSE dump_first_page(regions, idx + 1,
                         writer_write_slice(w, regions, idx, 0, HostPageSize))

RECURSIVE dump(_, _, _)
\* GuestMemoryExtension::dump: for every region in order,
\* write_all_volatile(region.as_volatile_slice()), i.e. the slice
\* get_slice(0, region.len()); the first error ends it.
dump(regions, idx, w) ==
    IF idx > Len(regions) \/ w.err THEN w
    ELSE dump(regions, idx + 1,
              writer_write_slice(w, regions, idx, 0, regions[idx].memory_size))

\* The content of the file a writer log produced, one value per page: the
\* last write that covers the page decides, a page no write covers is a hole
\* and reads 0.
file_content(log, data) ==
    LET writes == { n \in DOMAIN log : log[n].op = "write" }
        file_len == IF writes = {} THEN 0
                    ELSE LET m == CHOOSE n \in writes :
                                     \A o \in writes :
                                        log[o].off + log[o].len <= log[n].off + log[n].len
                         IN  log[m].off + log[m].len
        Hits(p) == { n \in writes :
                        /\ log[n].off <= (p - 1) * HostPageSize
                        /\ (p - 1) * HostPageSize < log[n].off + log[n].len }
    IN  [p \in 1..(file_len \div HostPageSize) |->
            IF Hits(p) = {} THEN 0
            ELSE LET n == CHOOSE m \in Hits(p) : \A o \in Hits(p) : o <= m
                 IN  data[log[n].region]
                         [((log[n].start + (p - 1) * HostPageSize - log[n].off)
                              \div HostPageSize) + 1]]

\* describe pushing each region in front of those described so far.
describe_push_front(regions) ==
    [i \in DOMAIN regions |->
        [base_address |-> regions[Len(regions) + 1 - i].guest_phys_addr,
         size |-> regions[Len(regions) + 1 - i].memory_size]]

\* GuestMemoryExtension::describe
describe(regions) ==
    [i \in DOMAIN regions |->
        [base_address |-> regions[i].guest_phys_addr, size |-> regions[i].memory_size]]

\* GuestMemoryState::regions
state_regions(state) ==
    [i \in DOMAIN state |-> <<state[i].base_address, state[i].size>>]

\* u64::checked_add: -1 for None.
checked_add(a, b) == IF a > U64_MAX - b THEN -1 ELSE a + b

\* The cast dropping the offset.
as_off_t_zero(offset) == 0

\* `offset as libc::off_t`: the two's complement reading of a u64.
as_off_t(offset) == IF offset > I64_MAX THEN offset - U64_MAX - 1 ELSE offset

\* libc::mmap(null, size, prot, flags, fd, fd_off) of the host: EINVAL for a
\* length of 0 and, with a file, for an offset that is negative or not a
\* multiple of the page size; a length that is not a multiple of the page
\* size is accepted.  The host may also fail the fail_at-th call (0: none).
mmap(size, file, fd_off, n, fail_at) ==
    [size |-> size, fd |-> file, fd_off |-> fd_off,
     ok |-> /\ n # fail_at
            /\ size > 0
            /\ (file # "none" => (fd_off >= 0 /\ fd_off % HostPageSize = 0))]

\* The region the closure of create builds once mmap succeeded.
MmapRegion(start, size, mmap_flags, file, track_dirty_pages, offset) ==
    [start |-> start, size |-> size, flags |-> mmap_flags,
     bitmap |-> IF track_dirty_pages THEN AtomicBitmap_with_len(size) ELSE NoBitmap,
     file_offset |-> IF file = "none" THEN NoFileOffset ELSE FileOffset(file, offset)]

RECURSIVE create_same_offset(_, _, _, _, _, _, _)
\* create mapping every region at the starting offset.
create_same_offset(regions, mmap_flags, file, track_dirty_pages, offset, mmap_fail_at, acc) ==
    IF Len(acc.regions) = Len(regions) THEN acc
    ELSE LET n     == Len(acc.regions) + 1
             start == regions[n][1]
             size  == regions[n][2]
             call  == mmap(size, file, IF file = "none" THEN 0 ELSE as_off_t(offset),
                           n, mmap_fail_at)
             calls == Append(acc.mmaps, call)
             new_off == checked_add(offset, size)
         IN  IF ~call.ok THEN [err |-> "Mmap", regions |-> <<>>, mmaps |-> calls]
             ELSE IF new_off = -1 \/ new_off >= I64_MAX
             THEN [err |-> "OffsetTooLarge", regions |-> <<>>, mmaps |-> calls]
             ELSE IF checked_add(start, size) = -1
             THEN [err |-> "VmMemoryError", regions |-> <<>>, mmaps |-> calls]
             ELSE create_same_offset(regions, mmap_flags, file, track_dirty_pages,
                         offset, mmap_fail_at,
                         [err |-> "none", mmaps |-> calls,
                          regions |-> Append(acc.regions,
                              MmapRegion(start, size, mmap_flags, file,
                                         track_dirty_pages, offset))])

RECURSIVE create(_, _, _, _, _, _, _)
\* create: the closure run for the regions in order, up to the first error.
\* acc: the regions built and the mmap calls made so far; mmap_fail_at: the
\* mmap call the host fails (0: none).  A region is mapped at the running
\* offset, which is then advanced by its size; GuestRegionMmap::new rejects
\* a region whose end overflows the guest address space.
create(regions, mmap_flags, file, track_dirty_pages, offset, mmap_fail_at, acc) ==
    IF Len(acc.regions) = Len(regions) THEN acc
    ELSE LET n     == Len(acc.regions) + 1
             start == regions[n][1]
             size  == regions[n][2]
             call  == mmap(size, file, IF file = "none" THEN 0 ELSE as_off_t(offset),
                           n, mmap_fail_at)
             calls == Append(acc.mmaps, call)
             new_off == checked_add(offset, size)
         IN  IF ~call.ok THEN [err |-> "Mmap", regions |-> <<>>, mmaps |-> calls]
             ELSE IF new_off = -1 \/ new_off >= I64_MAX
             THEN [err |-> "OffsetTooLarge", regions |-> <<>>, mmaps |-> calls]
             ELSE IF checked_add(start, size) = -1
             THEN [err |-> "VmMemoryError", regions |-> <<>>, mmaps |-> calls]
             ELSE create(regions, mmap_flags, file, track_dirty_pages,
                         new_off, mmap_fail_at,
                         [err |-> "none", mmaps |-> calls,
                          regions |-> Append(acc.regions,
                              MmapRegion(start, size, mmap_flags, file,
                                         track_dirty_pages, offset))])

\* create before its first region.
NoRegions == [err |-> "none", regions |-> <<>>, mmaps |-> <<>>]

\* file_private
file_private(file, regions, track_dirty_pages, offset, mmap_fail_at) ==
    create(regions, {"MAP_PRIVATE"}, file, track_dirty_pages, offset, mmap_fail_at,
           NoRegions)

\* KvmRegion::from_mmap_region: the kvm_userspace_memory_region2 (without the
\* host address), the bitmap and the file offset of the region.
from_mmap_region(region, slot, guest_memfd) ==
    [region |->
        [slot |-> slot,
         flags |-> (IF region.bitmap.some THEN {"KVM_MEM_LOG_DIRTY_PAGES"} ELSE {})
                   \cup (IF guest_memfd.some THEN {"KVM_MEM_GUEST_MEMFD"} ELSE {}),
         guest_phys_addr |-> region.start,
         memory_size |-> region.size,
         guest_memfd |-> IF guest_memfd.some THEN guest_memfd.file ELSE 0,
         guest_memfd_offset |-> IF guest_memfd.some THEN guest_memfd.start ELSE 0],
     bitmap |-> region.bitmap,
     file_offset |-> region.file_offset]

\* tests::kvmify: slots from 0 in order, no private memory.
kvmify(regions) ==
    [i \in DOMAIN regions |-> from_mmap_region(regions[i], i - 1, NoFileOffset)]

ImageIdle ==
    /\ mem_data = <<>>
    /\ mem_file = NoFile
    /\ restored = NoRestore

\* The mappings of anonymous(..) right after mmap: zero pages.
ImageInit ==
    /\ mem_data = [i \in DOMAIN gm_regions |-> [k \in 1..Pages(gm_regions[i]) |-> 0]]
    /\ mem_file = NoFile
    /\ restored = NoRestore

\* The guest addresses a write or a mark may start at: every page of the
\* span of the collection and the page after it.
GuestPages(regions) ==
    LET last == regions[Len(regions)]
    IN  { n * HostPageSize :
            n \in 0..((last.guest_phys_addr + last.memory_size) \div HostPageSize) }

\* Bytes::write(buf, addr) on the collection, buf filled with b.
GuestWrite ==
    /\ mem_data # <<>>
    /\ \E addr \in GuestPages(gm_regions), pages \in 1..2, b \in Bytes :
         \E r \in {guest_write(gm_regions, mem_data, fc_bitmap, addr,
                               pages * HostPageSize, b)} :
             /\ mem_data' = r.data
             /\ fc_bitmap' = r.bitmaps
             /\ last_op' = [kind |-> "write", addr |-> addr,
                            len |-> pages * HostPageSize]
    /\ mem_file' = NoFile
    /\ restored' = NoRestore
    /\ UNCHANGED <<gm_regions, last_dump, uffd_vars, vm_vars, later_vars>>

\* GuestMemoryExtension::dump into a fresh file; the fail_at-th write of the
\* writer fails (0: none).
Dump ==
    /\ mem_data # <<>>
    /\ \E fail_at \in 0..2 :
         \E w \in {dump(gm_regions, 1, NewWriter(fail_at))} :
             mem_file' = [result |-> IF w.err THEN "err" ELSE "ok",
                          log |-> w.log,
                          data |-> file_content(w.log, mem_data)]
    /\ restored' = NoRestore
    /\ last_op' = NoOp
    /\ UNCHANGED <<gm_regions, fc_bitmap, last_dump, mem_data, uffd_vars, vm_vars, later_vars>>

\* tests::test_dump: kvmify(file_private(memory_file, describe().regions(),
\* track_dirty_pages, offset)); the mmap_fail_at-th mmap fails (0: none).
Restore ==
    /\ mem_file # NoFile
    /\ \E track_dirty_pages \in BOOLEAN, offset \in {0, HostPageSize},
          mmap_fail_at \in 0..2 :
         \E r \in {file_private("memory_file", state_regions(describe(gm_regions)),
                                track_dirty_pages, offset, mmap_fail_at)} :
             restored' = IF r.err # "none"
                         THEN [result |-> r.err, offset |-> offset, regions |-> <<>>]
                         ELSE [result |-> "ok", offset |-> offset,
                               regions |-> kvmify(r.regions)]
    /\ last_op' = NoOp
    /\ UNCHANGED <<gm_regions, fc_bitmap, last_dump, mem_data, mem_file, uffd_vars, vm_vars, later_vars>>

(***************************************************************************)
(* Part III.  Properties of the full dump and the restore                  *)
(***************************************************************************)

RECURSIVE Concat(_)
\* The concatenation of a sequence of sequences.
Concat(ss) == IF ss = <<>> THEN <<>> ELSE Head(ss) \o Concat(Tail(ss))

\* The file a dump just wrote.
Filed == mem_file # NoFile

\* The number of write calls of a log.
NumWrites(log) == Cardinality({ n \in DOMAIN log : log[n].op = "write" })

\* C11: the full dump writes, for the regions in collection order, exactly
\* length bytes of each region's content with nothing in between: the file
\* is the concatenation of the region contents and its size is the sum of
\* the region lengths, whatever the gaps between the regions in guest
\* physical space.  (A dump that fails leaves the concatenation of the
\* regions written before the failing write.)
C11_DumpIsConcatenation ==
    Filed =>
        /\ \A n \in DOMAIN mem_file.log :
              /\ mem_file.log[n].op = "write"
              /\ mem_file.log[n].region = n
              /\ mem_file.log[n].start = 0
              /\ mem_file.log[n].len = gm_regions[n].memory_size
              /\ mem_file.log[n].off = PrecedingLen(gm_regions, n)
        /\ mem_file.data = Concat(SubSeq(mem_data, 1, Len(mem_file.log)))
        /\ mem_file.result = "ok" =>
              /\ Len(mem_file.log) = Len(gm_regions)
              /\ mem_file.data = Concat(mem_data)
              /\ Len(mem_file.data) * HostPageSize =
                    PrecedingLen(gm_regions, Len(gm_regions) + 1)

\* C11 witness: a successful dump of two regions separated by a gap, the
\* first with two pages of different content, the second with a content
\* that differs from both.
C11_Witness ==
    /\ Filed
    /\ mem_file.result = "ok"
    /\ Len(gm_regions) = 2
    /\ gm_regions[2].guest_phys_addr >
          gm_regions[1].guest_phys_addr + gm_regions[1].memory_size
    /\ Len(mem_data[1]) >= 2
    /\ mem_data[1][1] # mem_data[1][2]
    /\ mem_data[2][1] \notin {0, mem_data[1][1], mem_data[1][2]}

\* read(M, addr): the page of the dumped memory at a guest address.
read_guest(addr) ==
    LET i == find_region(gm_regions, addr)
    IN  mem_data[i][((addr - gm_regions[i].guest_phys_addr) \div HostPageSize) + 1]

\* read(M', addr): the page of the restored memory at a guest address; the
\* mapping is a private mapping of mem_file at the region's file offset, and
\* touching it past the end of the file raises SIGBUS.
read_restored(addr) ==
    LET regs == [i \in DOMAIN restored.regions |-> restored.regions[i].region]
        i == find_region(regs, addr)
        fo == restored.regions[i].file_offset
        p == ((fo.start + (addr - regs[i].guest_phys_addr)) \div HostPageSize) + 1
    IN  IF i = 0 \/ ~fo.some THEN "unmapped"
        ELSE IF p \in DOMAIN mem_file.data THEN mem_file.data[p] ELSE "SIGBUS"

\* A restore from the file of a successful dump, starting at offset 0.
RoundTrip ==
    /\ restored.result = "ok"
    /\ restored.offset = 0
    /\ Filed
    /\ mem_file.result = "ok"

\* C12: dump/restore round trip.  Rebuilding the regions with file_private
\* from the file of dump(M), the descriptor describe(M) and starting offset 0
\* gives a memory M' with the regions of M, in which every region reads back
\* the bytes of M at the same guest addresses.
C12_RoundTrip ==
    RoundTrip =>
        /\ Len(restored.regions) = Len(gm_regions)
        /\ \A i \in DOMAIN gm_regions :
              /\ restored.regions[i].region.guest_phys_addr = gm_regions[i].guest_phys_addr
              /\ restored.regions[i].region.memory_size = gm_regions[i].memory_size
              /\ \A k \in 0..(Pages(gm_regions[i]) - 1) :
                    read_restored(gm_regions[i].guest_phys_addr + k * HostPageSize) =
                    read_guest(gm_regions[i].guest_phys_addr + k * HostPageSize)

\* C12 witness: a round trip of a memory whose two regions hold different
\* non-zero contents, the first of more than one page.
C12_Witness ==
    /\ RoundTrip
    /\ Len(gm_regions) = 2
    /\ Len(mem_data[1]) >= 2
    /\ mem_data[1][1] # 0
    /\ mem_data[1][2] # mem_data[1][1]
    /\ mem_data[2][1] \notin {0, mem_data[1][1], mem_data[1][2]}

(***************************************************************************)
(* Part IV.  Dirty tracking                                                *)
(***************************************************************************)

\* Largest number of pages of the first region of a tracked collection.
TrackMaxPages == 2

\* The collections: three regions, the second adjacent to the first (as in
\* test_mark_dirty), the third one page after the second.
TrackCollections ==
    { << KvmRegion(0, 0, n * HostPageSize),
         KvmRegion(1, n * HostPageSize, HostPageSize),
         KvmRegion(2, (n + 2) * HostPageSize, HostPageSize) >> :
        n \in 1..TrackMaxPages }

\* mark_dirty marking only the first region try_access reaches.
mark_dirty_first_call(regions, bitmaps, addr, len) ==
    LET calls == try_access(regions, len, addr, 0)
    IN  [i \in DOMAIN regions |->
            IF calls # <<>> /\ calls[1].region = i
            THEN bitmap_mark_dirty(bitmaps[i], calls[1].start, calls[1].count)
            ELSE bitmaps[i]]

\* GuestMemoryExtension::mark_dirty: the bitmaps it leaves.  The result of
\* try_access is dropped.
mark_dirty(regions, bitmaps, addr, len) ==
    LET calls == try_access(regions, len, addr, 0)
    IN  [i \in DOMAIN regions |->
            LET mine == { n \in DOMAIN calls : calls[n].region = i }
            IN  IF mine = {} THEN bitmaps[i]
                ELSE LET c == calls[CHOOSE n \in mine : TRUE]
                     IN  bitmap_mark_dirty(bitmaps[i], c.start, c.count)]

\* The arguments of mark_dirty: addresses at the start and at the last byte
\* of every page of the span and of the page after it; lengths from nothing
\* to three pages.
MarkAddrs(regions) ==
    { a + d : a \in GuestPages(regions), d \in {0, HostPageSize - 1} }

MarkLens == {0, 1, 2, HostPageSize, HostPageSize + 1, 3 * HostPageSize}

TrackIdle == last_op = NoOp

TrackInit ==
    /\ gm_regions \in TrackCollections
    /\ \E track_dirty_pages \in BOOLEAN :
         fc_bitmap = [i \in DOMAIN gm_regions |->
                        IF track_dirty_pages
                        THEN AtomicBitmap_with_len(gm_regions[i].memory_size)
                        ELSE NoBitmap]
    /\ last_dump = NoDump
    /\ last_op = NoOp

\* GuestMemoryExtension::mark_dirty
MarkDirty ==
    /\ gm_regions # <<>>
    /\ \E addr \in MarkAddrs(gm_regions), len \in MarkLens :
         /\ fc_bitmap' = mark_dirty(gm_regions, fc_bitmap, addr, len)
         /\ last_op' = [kind |-> "mark_dirty", addr |-> addr, len |-> len]
    /\ UNCHANGED <<gm_regions, last_dump, uffd_vars, image_vars, vm_vars, later_vars>>

\* GuestMemoryExtension::store_dirty_bitmap
StoreDirtyBitmap ==
    /\ gm_regions # <<>>
    /\ \E dirty_bitmap \in DirtyBitmaps(gm_regions, fc_bitmap) :
         fc_bitmap' = store_dirty_bitmap(gm_regions, fc_bitmap, dirty_bitmap)
    /\ last_op' = [kind |-> "store_dirty_bitmap"]
    /\ UNCHANGED <<gm_regions, last_dump, uffd_vars, image_vars, vm_vars, later_vars>>

(***************************************************************************)
(* Part IV.  Properties of dirty tracking                                  *)
(***************************************************************************)

\* The pages of the collection, as <<region index, page index>>.
AllPages ==
    UNION { {i} \X (0..(Pages(gm_regions[i]) - 1)) : i \in DOMAIN gm_regions }

\* Page pg has a byte in the guest range [lo, hi).
Overlaps(pg, lo, hi) ==
    /\ lo < hi
    /\ gm_regions[pg[1]].guest_phys_addr + pg[2] * HostPageSize < hi
    /\ lo < gm_regions[pg[1]].guest_phys_addr + (pg[2] + 1) * HostPageSize

Tracked == \A i \in DOMAIN fc_bitmap : fc_bitmap[i].some

\* The end of the memory mapped without a gap from addr on: addr itself
\* when no region contains it.
ContigEnd(addr) ==
    LET ends == { gm_regions[i].guest_phys_addr + gm_regions[i].memory_size :
                    i \in DOMAIN gm_regions }
    IN  IF find_region(gm_regions, addr) = 0 THEN addr
        ELSE CHOOSE e \in ends :
                /\ e > addr
                /\ find_region(gm_regions, e) = 0
                /\ \A f \in ends : (addr < f /\ f < e) => find_region(gm_regions, f) # 0

\* The effect of a mark_dirty step on the guest range [lo, hi): the pages
\* that overlap it are dirty, every other page keeps its bit.
MarksExactly(lo, hi) ==
    \A pg \in AllPages :
        dirty_at(fc_bitmap'[pg[1]], pg[2] * HostPageSize) <=>
            \/ Overlaps(pg, lo, hi)
            \/ dirty_at(fc_bitmap[pg[1]], pg[2] * HostPageSize)

C14_ResetCleans ==
    last_op.kind = "reset_dirty" => FcDirty(gm_regions, fc_bitmap) = {}

\* C14 witness: a reset_dirty of a memory that had dirty pages in every
\* region.
C14_Witness ==
    /\ last_op.kind = "reset_dirty"
    /\ \A i \in DOMAIN gm_regions : \E pg \in last_op.was_dirty : pg[1] = i

(***************************************************************************)
(* Part V.  VM creation and memory-slot registration                       *)
(*                                                                         *)
(* The sources hold two revisions of the Vm: vm.rs (create_common with     *)
(* retries, memory_init with the slot-capacity check) and vm/mod.rs        *)
(* (Vm::new, memory_init with shared and private memory).  A Vm is of one  *)
(* of them (vm.rev).                                                       *)
(***************************************************************************)

\* create_common: const MAX_ATTEMPTS
MAX_ATTEMPTS == 5

\* Largest slot capacity the host reports (kvm.max_nr_memslots()).
VmMaxSlots == 3

\* Results of the host create call: success, EINTR, another error.
CreateResults == {"ok", "EINTR", "ENOMEM"}

NoMemory == [some |-> FALSE, regions |-> <<>>]
NoInput == [op |-> "none", shared |-> <<>>, private |-> <<>>]

\* create_common, one iteration of the loop: what the match on the result of
\* create_vm() does on the attempt-th attempt.  next: "break" (Ok), "retry"
\* (sleep, then attempt += 1) or "return" (Err(CreateVm)).
\* Here with a delay growing by 2 us per attempt.
create_common_linear(attempt, result) ==
    IF result = "ok" THEN [next |-> "break", sleep_us |-> 0]
    ELSE IF result = "EINTR" /\ attempt < MAX_ATTEMPTS
    THEN [next |-> "retry", sleep_us |-> 2 * attempt - 1]
    ELSE [next |-> "return", sleep_us |-> 0]

\* create_common, the match in its loop.
create_common(attempt, result) ==
    IF result = "ok" THEN [next |-> "break", sleep_us |-> 0]
    ELSE IF result = "EINTR" /\ attempt < MAX_ATTEMPTS
    THEN [next |-> "retry", sleep_us |-> 2 ^ (attempt - 1)]
    ELSE [next |-> "return", sleep_us |-> 0]

\* The (GuestAddress, size) pairs of n one-page regions, from page first on.
VmRegions(first, n) ==
    [k \in 1..n |-> <<(first + k - 1) * HostPageSize, HostPageSize>>]

\* anonymous (mmap succeeds)
anonymous(regions, track_dirty_pages) ==
    create(regions, {"MAP_PRIVATE", "MAP_ANONYMOUS"}, "none", track_dirty_pages,
           0, 0, NoRegions).regions

\* file_shared (mmap succeeds)
file_shared(file, regions, track_dirty_pages) ==
    create(regions, {"MAP_SHARED"}, file, track_dirty_pages, 0, 0, NoRegions).regions

\* The host's answer to the n-th registration of a memory_init: it rejects
\* a slot index outside its capacity, and the fail_at-th call (0: none).
host_accepts(region, n, fail_at) ==
    /\ region.slot < kvm.max_nr_memslots
    /\ n # fail_at

RECURSIVE try_for_each(_, _, _, _)
\* iter.try_for_each(|kvm_region| set_user_memory_region(kvm_region)): the
\* calls made, the last one being the first that fails.
try_for_each(kvm_regions, n, fail_at, calls) ==
    IF n > Len(kvm_regions) THEN calls
    ELSE LET ok == host_accepts(kvm_regions[n], n, fail_at)
             call == [op |-> "set_user_memory_region", region |-> kvm_regions[n],
                      ok |-> ok]
         IN  IF ok THEN try_for_each(kvm_regions, n + 1, fail_at, Append(calls, call))
             ELSE Append(calls, call)

\* zip(0u32..) with the slot stored, every region taking the slot 0.
zip_slots_all_zero(kvm_regions) ==
    [i \in DOMAIN kvm_regions |-> [kvm_regions[i] EXCEPT !.slot = 0]]

\* .zip(0u32..).map(|(mut kvm_region, slot)| { kvm_region.slot = slot; .. })
zip_slots(kvm_regions) ==
    [i \in DOMAIN kvm_regions |-> [kvm_regions[i] EXCEPT !.slot = i - 1]]

\* Whether the last call of a sequence of calls failed.
failed(calls) == calls # <<>> /\ ~calls[Len(calls)].ok

\* Vm::set_kvm_memory_regions (vm.rs): kvm_userspace_memory_region built
\* for every region, slots from zip(0u32..).
set_kvm_memory_regions(guest_mem, fail_at) ==
    try_for_each(
        zip_slots([i \in DOMAIN guest_mem |->
            [slot |-> 0,
             guest_phys_addr |-> guest_mem[i].start,
             memory_size |-> guest_mem[i].size,
             flags |-> IF guest_mem[i].bitmap.some
                       THEN {"KVM_MEM_LOG_DIRTY_PAGES"} ELSE {}]]),
        1, fail_at, <<>>)

\* memory_init attaching the guest memory before it registers the regions.
memory_init_attach_first(max_memslots, guest_mem, fail_at) ==
    IF Len(guest_mem) > max_memslots
    THEN [err |-> "NotEnoughMemorySlots", calls |-> <<>>, guest_memory |-> NoMemory]
    ELSE LET calls == set_kvm_memory_regions(guest_mem, fail_at)
         IN  [err |-> IF failed(calls) THEN "SetUserMemoryRegion" ELSE "none",
              calls |-> calls,
              guest_memory |-> [some |-> TRUE, regions |-> guest_mem]]

\* Vm::guest_memory (vm.rs): the guest memory, or the panic of expect.
Vm_guest_memory(common) ==
    IF common.guest_memory.some
    THEN [panic |-> "none", regions |-> common.guest_memory.regions]
    ELSE [panic |-> "attempt to access guest memory before calling Vm::memory_init()",
          regions |-> <<>>]

\* Vm::memory_init (vm.rs)
memory_init(max_memslots, guest_mem, fail_at) ==
    IF Len(guest_mem) > max_memslots
    THEN [err |-> "NotEnoughMemorySlots", calls |-> <<>>, guest_memory |-> NoMemory]
    ELSE LET calls == set_kvm_memory_regions(guest_mem, fail_at)
         IN  IF failed(calls)
             THEN [err |-> "SetUserMemoryRegion", calls |-> calls,
                   guest_memory |-> NoMemory]
             ELSE [err |-> "none", calls |-> calls,
                   guest_memory |-> [some |-> TRUE, regions |-> guest_mem]]

\* kvmify of vm/mod.rs without the dirty-logging flag.
vm_kvmify_no_flags(region) ==
    [slot |-> 0, flags |-> {}, guest_phys_addr |-> region.start,
     memory_size |-> region.size, guest_memfd |-> 0, guest_memfd_offset |-> 0]

\* kvmify (vm/mod.rs): the kvm_userspace_memory_region2 of a region, the
\* other fields at their default.
vm_kvmify(region) ==
    [slot |-> 0,
     flags |-> IF region.bitmap.some THEN {"KVM_MEM_LOG_DIRTY_PAGES"} ELSE {},
     guest_phys_addr |-> region.start,
     memory_size |-> region.size,
     guest_memfd |-> 0,
     guest_memfd_offset |-> 0]

\* Vm::memory_init (vm/mod.rs), the closure mapped over the private regions.
vm_kvmify_private(region) ==
    [vm_kvmify(region) EXCEPT
        !.flags = @ \cup {"KVM_MEM_GUEST_MEMFD"},
        !.guest_memfd = region.file_offset.file,
        !.guest_memfd_offset = region.file_offset.start]

RECURSIVE set_memory_attributes(_, _, _, _)
\* for priv_region in private_mem.iter() { set_memory_attributes(..)? }
set_memory_attributes(regions, n, fail_at, calls) ==
    IF n > Len(regions) THEN calls
    ELSE LET call == [op |-> "set_memory_attributes",
                      address |-> regions[n].start, size |-> regions[n].size,
                      attributes |-> {"KVM_MEMORY_ATTRIBUTE_PRIVATE"},
                      ok |-> n # fail_at]
         IN  IF call.ok THEN set_memory_attributes(regions, n + 1, fail_at,
                                                   Append(calls, call))
             ELSE Append(calls, call)

\* Vm::memory_init (vm/mod.rs) marking the private regions before it
\* registers.
vm_memory_init_mark_first(shared_mem, private_mem, fail_at, attr_fail_at, tss_ok) ==
    LET marks == set_memory_attributes(private_mem, 1, attr_fail_at, <<>>)
        kvm_regions ==
            zip_slots([i \in 1..(Len(shared_mem) + Len(private_mem)) |->
                IF i <= Len(shared_mem) THEN vm_kvmify(shared_mem[i])
                ELSE vm_kvmify_private(private_mem[i - Len(shared_mem)])])
        regs == try_for_each(kvm_regions, 1, fail_at, <<>>)
    IN  IF failed(marks) THEN [err |-> "SetMemoryAttributes", calls |-> marks]
        ELSE IF failed(regs) THEN [err |-> "SetUserMemoryRegion", calls |-> marks \o regs]
        ELSE [err |-> "none", calls |-> marks \o regs]

\* Vm::memory_init (vm/mod.rs): registers the shared regions, then the
\* private ones, slots from zip(0u32..); then marks the private regions;
\* then sets the TSS address (x86_64).
vm_memory_init(shared_mem, private_mem, fail_at, attr_fail_at, tss_ok) ==
    LET kvm_regions ==
            zip_slots([i \in 1..(Len(shared_mem) + Len(private_mem)) |->
                IF i <= Len(shared_mem) THEN vm_kvmify(shared_mem[i])
                ELSE vm_kvmify_private(private_mem[i - Len(shared_mem)])])
        regs == try_for_each(kvm_regions, 1, fail_at, <<>>)
        marks == set_memory_attributes(private_mem, 1, attr_fail_at, <<>>)
        tss == [op |-> "set_tss_address", ok |-> tss_ok]
    IN  IF failed(regs) THEN [err |-> "SetUserMemoryRegion", calls |-> regs]
        ELSE IF failed(marks)
        THEN [err |-> "SetMemoryAttributes", calls |-> regs \o marks]
        ELSE [err |-> IF tss_ok THEN "none" ELSE "VmSetup",
              calls |-> regs \o marks \o <<tss>>]

\* Vm::set_userspace_memory_region2 (guest_memfd.rs): the descriptor it
\* hands to KVM_SET_USER_MEMORY_REGION2.  KVM_MEM_PRIVATE is the bit that
\* kvm_bindings calls KVM_MEM_GUEST_MEMFD.
set_userspace_memory_region2(slot, region, guest_memfd) ==
    [slot |-> slot,
     guest_phys_addr |-> region.start,
     memory_size |-> region.size,
     guest_memfd_offset |-> region.start,
     guest_memfd |-> guest_memfd,
     flags |-> {"KVM_MEM_GUEST_MEMFD"}]

Revs == {"vm.rs", "vm/mod.rs"}

NoVm ==
    [rev |-> "none", pc |-> "none", attempt |-> 0, max_memslots |-> 0,
     guest_memory |-> NoMemory, error |-> "none", calls |-> <<>>]

VmIdle ==
    /\ kvm = [max_nr_memslots |-> 0, calls |-> <<>>]
    /\ vm = NoVm
    /\ vm_input = NoInput

\* A host with some slot capacity, and a Vm of either revision about to be
\* created.
VmInit ==
    /\ kvm \in [max_nr_memslots : 1..VmMaxSlots, calls : {<<>>}]
    /\ vm \in {[NoVm EXCEPT !.rev = r, !.pc = "create", !.attempt = 1] : r \in Revs}
    /\ vm_input = NoInput

\* Vm::create_common (vm.rs), one iteration of its loop: the create call,
\* then break, sleep and retry, or return the error.
CreateCommon ==
    /\ vm.rev = "vm.rs"
    /\ vm.pc = "create"
    /\ \E result \in CreateResults :
         LET step == create_common(vm.attempt, result)
             call == [op |-> "create_vm", result |-> result]
         IN  /\ kvm' = [kvm EXCEPT !.calls =
                    IF step.next = "retry"
                    THEN @ \o <<call, [op |-> "sleep", us |-> step.sleep_us]>>
                    ELSE Append(@, call)]
             /\ vm' = IF step.next = "break"
                      THEN [vm EXCEPT !.pc = "created",
                                      !.max_memslots = kvm.max_nr_memslots]
                      ELSE IF step.next = "retry"
                      THEN [vm EXCEPT !.attempt = @ + 1]
                      ELSE [vm EXCEPT !.pc = "failed", !.error = "CreateVm"]
    /\ UNCHANGED <<vm_input, uffd_vars, dump_vars, image_vars, track_vars, later_vars>>

\* Vm::new (vm/mod.rs): one create_vm_with_type call; arch_create does not
\* fail.
VmNew ==
    /\ vm.rev = "vm/mod.rs"
    /\ vm.pc = "create"
    /\ \E result \in CreateResults :
         /\ kvm' = [kvm EXCEPT !.calls = Append(@, [op |-> "create_vm", result |-> result])]
         /\ vm' = IF result = "ok" THEN [vm EXCEPT !.pc = "created"]
                  ELSE [vm EXCEPT !.pc = "failed", !.error = "VmFd"]
    /\ UNCHANGED <<vm_input, uffd_vars, dump_vars, image_vars, track_vars, later_vars>>

\* Vm::memory_init (vm.rs) with up to one region more than the largest
\* capacity.
MemoryInit ==
    /\ vm.rev = "vm.rs"
    /\ vm.pc = "created"
    /\ \E n \in 1..(VmMaxSlots + 1), track \in BOOLEAN :
         \E fail_at \in 0..n :
           LET guest_mem == anonymous(VmRegions(0, n), track) IN
           \E r \in {memory_init(vm.max_memslots, guest_mem, fail_at)} :
             /\ vm' = [vm EXCEPT
                    !.pc = IF r.err = "none" THEN "initialized" ELSE "init_failed",
                    !.error = r.err,
                    !.guest_memory = r.guest_memory,
                    !.calls = r.calls]
             /\ vm_input' = [op |-> "memory_init", shared |-> guest_mem, private |-> <<>>]
    /\ UNCHANGED <<kvm, uffd_vars, dump_vars, image_vars, track_vars, later_vars>>

\* Vm::memory_init (vm/mod.rs): shared regions, and private regions backed
\* by a guest_memfd behind them (none: private_mem is None).
VmMemoryInit ==
    /\ vm.rev = "vm/mod.rs"
    /\ vm.pc = "created"
    /\ \E n \in 1..(VmMaxSlots + 1), p \in 0..2, track \in BOOLEAN,
          track_private \in BOOLEAN, tss_ok \in BOOLEAN :
         \E fail_at \in 0..(n + p), attr_fail_at \in 0..p :
           LET shared_mem == anonymous(VmRegions(0, n), track)
               private_mem == file_shared("guest_memfd", VmRegions(n, p), track_private)
           IN
           \E r \in {vm_memory_init(shared_mem, private_mem, fail_at, attr_fail_at,
                                    tss_ok)} :
             /\ vm' = [vm EXCEPT
                    !.pc = IF r.err = "none" THEN "initialized" ELSE "init_failed",
                    !.error = r.err,
                    !.calls = r.calls]
             /\ vm_input' = [op |-> "memory_init", shared |-> shared_mem,
                              private |-> private_mem]
    /\ UNCHANGED <<kvm, uffd_vars, dump_vars, image_vars, track_vars, later_vars>>

\* The guest_memfd path on a Vm of vm.rs: every region of the guest memory
\* is registered with set_userspace_memory_region2, in order and with the
\* slots counted from 0, until a call fails.
RegisterGuestMemfd ==
    /\ vm.rev = "vm.rs"
    /\ vm.pc = "created"
    /\ \E n \in 1..VmMaxSlots, track \in BOOLEAN :
         \E fail_at \in 0..n :
           LET guest_memory == file_shared("guest_memfd", VmRegions(0, n), track)
               calls == try_for_each(
                   [i \in 1..n |-> set_userspace_memory_region2(
                                       i - 1, guest_memory[i], "guest_memfd")],
                   1, fail_at, <<>>)
           IN  /\ vm' = [vm EXCEPT
                      !.pc = IF failed(calls) THEN "init_failed" ELSE "registered",
                      !.error = IF failed(calls) THEN "SetUserMemoryRegion" ELSE "none",
                      !.calls = calls]
               /\ vm_input' = [op |-> "set_userspace_memory_region2", shared |-> <<>>,
                              private |-> guest_memory]
    /\ UNCHANGED <<kvm, uffd_vars, dump_vars, image_vars, track_vars, later_vars>>

\* Vmm::set_guest_memory_private (guest_memfd.rs), called once the guest
\* memory is registered: unmaps every region, then marks one region after
\* the other private, until a call fails.
SetGuestMemoryPrivate ==
    /\ vm.pc = "registered"
    /\ \E attr_fail_at \in 0..Len(vm_input.private) :
         LET unmaps == [i \in DOMAIN vm_input.private |->
                           [op |-> "munmap", address |-> vm_input.private[i].start,
                            size |-> vm_input.private[i].size, ok |-> TRUE]]
             marks == set_memory_attributes(vm_input.private, 1, attr_fail_at, <<>>)
         IN  vm' = [vm EXCEPT
                 !.pc = IF failed(marks) THEN "private_failed" ELSE "private",
                 !.error = IF failed(marks) THEN "SetMemoryAttributes" ELSE "none",
                 !.calls = @ \o unmaps \o marks]
    /\ UNCHANGED <<kvm, vm_input, uffd_vars, dump_vars, image_vars, track_vars, later_vars>>

(***************************************************************************)
(* Part V, properties                                                      *)
(***************************************************************************)

\* The regions handed to the last memory_init, in registration order.
InputRegions == vm_input.shared \o vm_input.private

\* The registration calls made on the VM fd, in the order they were made.
Registrations == SelectSeq(vm.calls, LAMBDA c : c.op = "set_user_memory_region")

\* Claim C15: when memory_init is given more regions than the host's slot
\* capacity it fails with NotEnoughMemorySlots before any registration
\* call is made and attaches nothing; with exactly as many regions as the
\* capacity it does not fail with that error (it succeeds when the host
\* accepts every call); the memory attached to a Vm never has more regions
\* than the capacity.
C15_CapacityCheck ==
    /\ vm_input.op = "memory_init" =>
         /\ Len(InputRegions) > kvm.max_nr_memslots =>
              /\ vm.error = "NotEnoughMemorySlots"
              /\ vm.calls = <<>>
              /\ ~vm.guest_memory.some
         /\ Len(InputRegions) = kvm.max_nr_memslots =>
              /\ vm.error # "NotEnoughMemorySlots"
              /\ (\A i \in DOMAIN vm.calls : vm.calls[i].ok) => vm.error = "none"
    /\ vm.guest_memory.some =>
         Len(vm.guest_memory.regions) <= kvm.max_nr_memslots

\* C40: a memory_init of vm.rs that returns an error (too many regions for
\* the host's slots, or a registration the host rejects) attaches no guest
\* memory to the Vm: a guest_memory() call after it panics as before
\* memory_init was called.
C40_FailedInitAttachesNothing ==
    (vm.rev = "vm.rs" /\ vm_input.op = "memory_init" /\ vm.error # "none") =>
        /\ vm.error \in {"NotEnoughMemorySlots", "SetUserMemoryRegion"}
        /\ vm.guest_memory = NoMemory
        /\ Vm_guest_memory(vm) = Vm_guest_memory(NoVm)
        /\ Vm_guest_memory(vm).panic # "none"

\* The host rejects the second registration of a memory_init.
C40_Witness ==
    /\ vm.rev = "vm.rs" /\ vm_input.op = "memory_init"
    /\ vm.error = "SetUserMemoryRegion"
    /\ Len(vm.calls) = 2
    /\ vm.calls[1].ok /\ ~vm.calls[2].ok
    /\ Vm_guest_memory(vm).panic # "none"

\* More regions than the host has slots.
C40_WitnessCapacity ==
    /\ vm.rev = "vm.rs" /\ vm_input.op = "memory_init"
    /\ vm.error = "NotEnoughMemorySlots"
    /\ Vm_guest_memory(vm).panic # "none"

\* A memory_init that succeeded: guest_memory() returns the memory.
C40_WitnessAttached ==
    /\ vm.rev = "vm.rs" /\ vm_input.op = "memory_init"
    /\ vm.error = "none"
    /\ Vm_guest_memory(vm).panic = "none"
    /\ Vm_guest_memory(vm).regions = vm_input.shared

\* Whether the k-th region handed over carries a private-memory binding:
\* it is one of the private regions (bound to a guest_memfd).
IsPrivate(k) == k > Len(vm_input.shared)

\* The descriptor of the k-th registration call says of its region what
\* the region is: dirty logging iff it has a bitmap, private iff it has a
\* private binding, and then with the binding's file and offset.
DescriptorMatches(k) ==
    LET desc == Registrations[k].region
        region == InputRegions[k]
    IN  /\ "KVM_MEM_LOG_DIRTY_PAGES" \in desc.flags <=> region.bitmap.some
        /\ "KVM_MEM_GUEST_MEMFD" \in desc.flags <=> IsPrivate(k)
        /\ IsPrivate(k) =>
             /\ region.file_offset.some
             /\ desc.guest_memfd = region.file_offset.file
             /\ desc.guest_memfd_offset = region.file_offset.start

\* Claim C16: in every memory-slot descriptor handed to the host the
\* dirty-logging flag is set exactly when the region has a dirty bitmap,
\* and the private flag is set exactly when the region has a private-memory
\* binding, the descriptor then carrying that binding's file and offset.
C16_DescriptorFlags ==
    \A k \in DOMAIN Registrations : DescriptorMatches(k)

\* The same for the descriptors of memory_init (vm.rs and vm/mod.rs) and for
\* the KvmRegion that from_mmap_region (memory.rs) builds of every region
\* handed over, with and without a guest_memfd.
DescriptorFlagsOfMemoryInit ==
    /\ vm_input.op = "memory_init" => C16_DescriptorFlags
    /\ \A k \in DOMAIN InputRegions :
       \A fd \in {NoFileOffset, FileOffset("guest_memfd", InputRegions[k].start)} :
         LET kvm_region == from_mmap_region(InputRegions[k], k - 1, fd).region IN
         /\ "KVM_MEM_LOG_DIRTY_PAGES" \in kvm_region.flags <=> InputRegions[k].bitmap.some
         /\ "KVM_MEM_GUEST_MEMFD" \in kvm_region.flags <=> fd.some
         /\ fd.some => /\ kvm_region.guest_memfd = fd.file
                       /\ kvm_region.guest_memfd_offset = fd.start

\* Claim C17: memory_init assigns the slots densely from 0 in registration
\* order: the k-th registration call (k from 0) is for the k-th region
\* handed over, the shared ones before the private ones, and carries slot
\* k; so the calls are in ascending slot order and no two regions of the
\* Vm get the same slot.
C17_DenseSlots ==
    vm_input.op = "memory_init" =>
        /\ Len(Registrations) <= Len(InputRegions)
        /\ \A k \in DOMAIN Registrations :
             /\ Registrations[k].region.slot = k - 1
             /\ Registrations[k].region.guest_phys_addr = InputRegions[k].start
        /\ \A i, j \in DOMAIN Registrations :
             i < j => Registrations[i].region.slot < Registrations[j].region.slot

\* memory_init of vm/mod.rs has registered two shared regions and a private
\* one on the same Vm.
C17_Witness ==
    /\ vm_input.op = "memory_init"
    /\ Len(vm_input.shared) = 2
    /\ Len(vm_input.private) = 1
    /\ Len(Registrations) = 3
    /\ \A k \in DOMAIN Registrations : Registrations[k].ok

\* The mark-private calls made on the VM fd, in the order they were made.
Marks == SelectSeq(vm.calls, LAMBDA c : c.op = "set_memory_attributes")

\* Claim C18: a region is marked private only after the registration of
\* all regions has succeeded: no set_memory_attributes call precedes a
\* set_user_memory_region call, when a registration has failed no region
\* is marked, and a mark is for a private region that was handed over.
C18_RegisterBeforeMark ==
    /\ \A i, j \in DOMAIN vm.calls :
         (vm.calls[i].op = "set_memory_attributes"
            /\ vm.calls[j].op = "set_user_memory_region") => j < i
    /\ (\E k \in DOMAIN Registrations : ~Registrations[k].ok) => Marks = <<>>
    /\ Marks # <<>> =>
         /\ Len(Registrations) = Len(InputRegions)
         /\ \A k \in DOMAIN Marks :
              /\ Marks[k].address = vm_input.private[k].start
              /\ Marks[k].size = vm_input.private[k].size
              /\ Marks[k].attributes = {"KVM_MEMORY_ATTRIBUTE_PRIVATE"}

\* memory_init of vm/mod.rs has registered a shared and two private regions
\* and marked both private ones.
C18_Witness ==
    /\ vm.rev = "vm/mod.rs"
    /\ Len(vm_input.shared) = 1
    /\ Len(vm_input.private) = 2
    /\ Len(Marks) = 2
    /\ \A k \in DOMAIN Marks : Marks[k].ok

\* The create calls made on the host, in the order they were made.
Creates == SelectSeq(kvm.calls, LAMBDA c : c.op = "create_vm")

\* The delays slept between create calls, in order.
Sleeps == SelectSeq(kvm.calls, LAMBDA c : c.op = "sleep")

\* Claim C19: VM creation makes at most 5 create calls; a call is retried
\* only when it failed with EINTR, and then on the first 4 attempts; the
\* first successful call ends creation with the Vm; any other error, or
\* EINTR on the fifth attempt, ends it at once with CreateVm.
C19_BoundedRetry ==
    LET n == Len(Creates) IN
    /\ n <= 5
    /\ \A i \in 1..(n - 1) : Creates[i].result = "EINTR"
    /\ vm.pc = "create" <=> (n = 0 \/ (Creates[n].result = "EINTR" /\ n < 5))
    /\ n > 0 =>
         /\ Creates[n].result = "ok" => vm.pc \notin {"create", "failed"}
         /\ (Creates[n].result = "ENOMEM" \/ (Creates[n].result = "EINTR" /\ n = 5)) =>
              /\ vm.pc = "failed"
              /\ vm.error = "CreateVm"

\* The same for create_common (vm.rs) alone.
BoundedRetryOfCreateCommon == vm.rev = "vm.rs" => C19_BoundedRetry

\* The number of create calls among the first i host calls.
CreatesBefore(i) == Cardinality({j \in 1..i : kvm.calls[j].op = "create_vm"})

\* Claim C20: the delay slept after the k-th interrupted create attempt
\* (k = 1..4) is 2^(k-1) microseconds, so the delays slept are a prefix of
\* 1, 2, 4, 8 (15 in all at most); nothing is slept after a success, after
\* an error other than EINTR, or after the fifth attempt.  create_common
\* does sleep after each of its first four interrupted attempts.
C20_Backoff ==
    /\ \A i \in DOMAIN kvm.calls :
         kvm.calls[i].op = "sleep" =>
           /\ i > 1
           /\ kvm.calls[i - 1] = [op |-> "create_vm", result |-> "EINTR"]
           /\ CreatesBefore(i) \in 1..4
           /\ kvm.calls[i].us = 2 ^ (CreatesBefore(i) - 1)
    /\ Len(Sleeps) <= 4
    /\ \A k \in DOMAIN Sleeps : Sleeps[k].us = <<1, 2, 4, 8>>[k]
    /\ \A i \in DOMAIN kvm.calls :
         (kvm.calls[i].op = "create_vm"
            /\ (kvm.calls[i].result # "EINTR" \/ CreatesBefore(i) = 5)) =>
           i = Len(kvm.calls)
    /\ vm.rev = "vm.rs" =>
         \A i \in DOMAIN kvm.calls :
           (kvm.calls[i] = [op |-> "create_vm", result |-> "EINTR"]
              /\ CreatesBefore(i) <= 4) =>
             /\ i < Len(kvm.calls)
             /\ kvm.calls[i + 1] = [op |-> "sleep", us |-> 2 ^ (CreatesBefore(i) - 1)]

\* create_common was interrupted five times: it has slept 1, 2, 4 and 8 us
\* and has given up after the fifth attempt.
C20_Witness ==
    /\ vm.rev = "vm.rs"
    /\ vm.pc = "failed"
    /\ Len(Creates) = 5
    /\ Len(Sleeps) = 4
    /\ kvm.calls[Len(kvm.calls)] = [op |-> "create_vm", result |-> "EINTR"]

(***************************************************************************)
(* Part VI.  The region mapper and the memory-state descriptor             *)
(***************************************************************************)

\* Largest number of regions handed to create.
MapperMaxRegions == 2

\* Region sizes handed to create: none, a page, a byte more than a page, two
\* pages, and a page less than the offsets the mapper accepts.
MapperSizes ==
    {0, HostPageSize, HostPageSize + 1, 2 * HostPageSize, I64_MAX + 1 - HostPageSize}

\* Starting offsets handed to create: the start of the file, its second
\* page, two pages below 2^63 (scaled), 2^63 and the last page of u64.
MapperOffsets ==
    {0, HostPageSize, I64_MAX + 1 - 2 * HostPageSize, I64_MAX + 1,
     U64_MAX - HostPageSize + 1}

\* How the regions lie in the guest: one after the other, four pages apart,
\* or four pages apart and handed over from the highest address down.
Layouts == {"contiguous", "gaps", "descending"}

RECURSIVE SumTo(_, _)
\* The sum of the first n elements of a sequence of numbers.
SumTo(sizes, n) == IF n = 0 THEN 0 ELSE sizes[n] + SumTo(sizes, n - 1)

\* The (GuestAddress, size) pairs of a layout.
MapperRegions ==
    UNION { { [k \in 1..n |->
                 << CASE layout = "contiguous" -> SumTo(sizes, k - 1)
                      [] layout = "gaps" -> (k - 1) * 4 * HostPageSize
                      [] layout = "descending" -> (n - k) * 4 * HostPageSize,
                    sizes[k] >>] :
              sizes \in [1..n -> MapperSizes], layout \in Layouts } :
            n \in 1..MapperMaxRegions }

NoMapper == [op |-> "none"]
NoCollection == [err |-> "none", regions |-> <<>>]
NoDescr == [op |-> "none"]

MapperIdle ==
    /\ mapper = NoMapper
    /\ collection = NoCollection
    /\ descr = NoDescr

RECURSIVE insert_sorted(_, _)
\* A region put into a sequence sorted by guest address, after the regions
\* that do not start above it.
insert_sorted(sorted, r) ==
    IF sorted = <<>> THEN <<r>>
    ELSE IF Head(sorted).guest_phys_addr <= r.guest_phys_addr
    THEN <<Head(sorted)>> \o insert_sorted(Tail(sorted), r)
    ELSE <<r>> \o sorted

RECURSIVE sort_by_start(_)
sort_by_start(rs) ==
    IF rs = <<>> THEN <<>>
    ELSE insert_sorted(sort_by_start(SubSeq(rs, 1, Len(rs) - 1)), rs[Len(rs)])

\* GuestRegionCollection::from_regions: the regions sorted by guest address;
\* no regions and overlapping regions are errors.
from_regions(rs) ==
    LET sorted == sort_by_start(rs) IN
    IF rs = <<>> THEN [err |-> "NoMemoryRegion", regions |-> <<>>]
    ELSE IF \E i \in 1..(Len(sorted) - 1) :
               sorted[i].guest_phys_addr + sorted[i].memory_size
                   > sorted[i + 1].guest_phys_addr
    THEN [err |-> "MemoryRegionOverlap", regions |-> <<>>]
    ELSE [err |-> "none", regions |-> sorted]

\* create(regions, mmap_flags, file, track_dirty_pages, offset) as called by
\* anonymous / file_shared / file_private (file "none": anonymous), once.
Create ==
    /\ mapper = NoMapper
    /\ \E regions \in MapperRegions, file \in {"none", "memory_file"},
          track_dirty_pages \in BOOLEAN, offset \in MapperOffsets :
         \E mmap_fail_at \in 0..Len(regions) :
           /\ file = "none" => offset = 0
           /\ mapper' = [op |-> "create", regions |-> regions, file |-> file,
                         track_dirty_pages |-> track_dirty_pages, offset |-> offset,
                         result |-> create(regions,
                                           IF file = "none"
                                           THEN {"MAP_PRIVATE", "MAP_ANONYMOUS"}
                                           ELSE {"MAP_PRIVATE"},
                                           file, track_dirty_pages, offset,
                                           mmap_fail_at, NoRegions)]
    /\ collection' = NoCollection
    /\ descr' = NoDescr
    /\ UNCHANGED <<uffd_vars, dump_vars, image_vars, track_vars, vm_vars,
                   after_mapper_vars>>

\* tests::kvmify: GuestMemoryMmap::from_regions of the KvmRegions made of
\* the regions create returned, slots from 0 in order.
FromRegions ==
    /\ mapper # NoMapper
    /\ mapper.result.err = "none"
    /\ collection' = from_regions(
           [i \in DOMAIN mapper.result.regions |->
               from_mmap_region(mapper.result.regions[i], i - 1, NoFileOffset).region])
    /\ descr' = NoDescr
    /\ UNCHANGED <<mapper, uffd_vars, dump_vars, image_vars, track_vars, vm_vars,
                   after_mapper_vars>>

\* Bytes of a serialized integer: u64 and usize are written with a fixed
\* width, little-endian (8 bytes, scaled to the 4 bytes of a 31-bit value).
INT_BYTES == 4

\* The little-endian bytes of v.
to_le_bytes(v) == [k \in 1..INT_BYTES |-> (v \div (256 ^ (k - 1))) % 256]

RECURSIVE from_le_bytes(_)
\* The integer of little-endian bytes.
from_le_bytes(bytes) ==
    IF bytes = <<>> THEN 0 ELSE Head(bytes) + 256 * from_le_bytes(Tail(bytes))

RECURSIVE serialize_regions(_)
serialize_regions(regions) ==
    IF regions = <<>> THEN <<>>
    ELSE to_le_bytes(Head(regions).base_address) \o to_le_bytes(Head(regions).size)
         \o serialize_regions(Tail(regions))

\* Snapshot::serialize of a GuestMemoryState: the number of regions, then
\* base_address and size of every region in the order of the Vec.
serialize(state) == to_le_bytes(Len(state)) \o serialize_regions(state)

\* deserialize reading size before base_address.
deserialize_swapped(bytes) ==
    LET n == from_le_bytes(SubSeq(bytes, 1, INT_BYTES))
        word(k) == from_le_bytes(SubSeq(bytes, k * INT_BYTES + 1, (k + 1) * INT_BYTES))
    IN  [i \in 1..n |-> [base_address |-> word(2 * i), size |-> word(2 * i - 1)]]

\* Snapshot::deserialize into a GuestMemoryState.
deserialize(bytes) ==
    LET n == from_le_bytes(SubSeq(bytes, 1, INT_BYTES))
        word(k) == from_le_bytes(SubSeq(bytes, k * INT_BYTES + 1, (k + 1) * INT_BYTES))
    IN  [i \in 1..n |-> [base_address |-> word(2 * i - 1), size |-> word(2 * i)]]

\* tests::check_serde: describe, serialize, deserialize.
CheckSerde ==
    /\ collection.regions # <<>>
    /\ descr = NoDescr
    /\ \E original_state \in {describe(collection.regions)} :
         \E snapshot_data \in {serialize(original_state)} :
           descr' = [op |-> "check_serde",
                     original_state |-> original_state,
                     snapshot_data |-> snapshot_data,
                     restored_state |-> deserialize(snapshot_data)]
    /\ UNCHANGED <<mapper, collection, uffd_vars, dump_vars, image_vars, track_vars,
                   vm_vars, after_mapper_vars>>

(***************************************************************************)
(* Part VI.  Properties of the region mapper and the descriptor            *)
(***************************************************************************)

\* create has returned regions.
Created == mapper # NoMapper /\ mapper.result.err = "none"

\* The regions create returned.
Built == IF Created THEN mapper.result.regions ELSE <<>>

\* Claim C21: a region built by create carries a dirty bitmap exactly when
\* dirty tracking was requested, and the bitmap has ceil(size / page size)
\* bits, none of them set.
C21_BitmapIffTracking ==
    \A i \in DOMAIN Built :
        /\ Built[i].bitmap.some <=> mapper.track_dirty_pages
        /\ Built[i].bitmap.some =>
             /\ Built[i].bitmap.size * HostPageSize >= Built[i].size
             /\ (Built[i].bitmap.size - 1) * HostPageSize < Built[i].size
             /\ Built[i].bitmap.bits = {}

\* create has built, with dirty tracking, two regions of which one is a
\* byte longer than a page (two bits).
C21_Witness ==
    /\ Created
    /\ mapper.track_dirty_pages
    /\ Len(Built) = 2
    /\ \E i \in DOMAIN Built : Built[i].size = HostPageSize + 1 /\ Built[i].bitmap.size = 2

\* Claim C22: every region create returns has a size that is greater than 0
\* and a multiple of the host page size; a region of size 0 or of a size
\* that is no multiple of the page size makes create fail.
C22_PageMultiple ==
    /\ \A i \in DOMAIN Built : Built[i].size > 0 /\ Built[i].size % HostPageSize = 0
    /\ (mapper # NoMapper
          /\ \E i \in DOMAIN mapper.regions :
                mapper.regions[i][2] = 0 \/ mapper.regions[i][2] % HostPageSize # 0)
       => mapper.result.err # "none"

\* The part of C22 about regions of size 0: create fails when one is asked
\* for, and returns none.
ZeroLengthRejected ==
    /\ \A i \in DOMAIN Built : Built[i].size > 0
    /\ (mapper # NoMapper /\ \E i \in DOMAIN mapper.regions : mapper.regions[i][2] = 0)
       => mapper.result.err # "none"

RECURSIVE CumOffset(_)
\* The cumulative file offset of the i-th region handed to create: the
\* starting offset plus the sizes of the regions before it; the largest
\* integer stands for every sum beyond it.
CumOffset(i) ==
    IF i = 1 THEN mapper.offset
    ELSE LET before == CumOffset(i - 1)
             size == mapper.regions[i - 1][2]
         IN  IF before > U64_MAX - size THEN U64_MAX ELSE before + size

\* The mmap calls create made.
MmapCalls == IF mapper = NoMapper THEN <<>> ELSE mapper.result.mmaps

\* Claim C23: create fails with OffsetTooLarge whenever it comes to a region
\* whose cumulative file offset does not fit in a signed 64-bit integer,
\* and every file offset it hands to mmap lies in [0, 2^63).
C23_OffsetFits ==
    mapper # NoMapper =>
        /\ \A i \in DOMAIN mapper.regions :
             (/\ CumOffset(i) > I64_MAX
              /\ Len(MmapCalls) >= i - 1
              /\ \A k \in 1..(i - 1) : MmapCalls[k].ok)
             => mapper.result.err = "OffsetTooLarge"
        /\ \A k \in DOMAIN MmapCalls :
             MmapCalls[k].fd # "none" =>
                (0 <= MmapCalls[k].fd_off /\ MmapCalls[k].fd_off <= I64_MAX)

\* The region that takes the running offset to i64::MAX or beyond: the first
\* whose end in the file does not fit.
TooLargeAt ==
    CHOOSE i \in DOMAIN mapper.regions :
        /\ CumOffset(i + 1) >= I64_MAX
        /\ \A k \in 1..(i - 1) : CumOffset(k + 1) < I64_MAX

\* C39: when create returns OffsetTooLarge, mmap has not been called for the
\* region that took the offset past the limit (the k-th mmap call is the
\* one for the k-th region), so no mapping of it is left behind.
C39_OffsetCheckedBeforeMmap ==
    (mapper # NoMapper /\ mapper.result.err = "OffsetTooLarge") =>
        Len(MmapCalls) < TooLargeAt

\* OffsetTooLarge is only returned behind the successful mmap of the region
\* that took the offset past the limit.
OffsetTooLargeAfterMmap ==
    (mapper # NoMapper /\ mapper.result.err = "OffsetTooLarge") =>
        /\ Len(MmapCalls) = TooLargeAt
        /\ MmapCalls[TooLargeAt].ok

\* The same for the regions after the first: the running offset is checked
\* after every region, so no region after the first is mapped at an offset
\* that does not fit.
OffsetFitsAfterFirst ==
    mapper # NoMapper =>
        /\ \A i \in DOMAIN mapper.regions :
             (/\ i > 1
              /\ mapper.offset <= I64_MAX
              /\ CumOffset(i) > I64_MAX
              /\ Len(MmapCalls) >= i - 1
              /\ \A k \in 1..(i - 1) : MmapCalls[k].ok)
             => mapper.result.err = "OffsetTooLarge"
        /\ \A k \in DOMAIN MmapCalls :
             (k > 1 /\ MmapCalls[k].fd # "none") =>
                (0 <= MmapCalls[k].fd_off /\ MmapCalls[k].fd_off <= I64_MAX)

\* Claim C24: with a file, create maps the i-th region at the starting
\* offset plus the sizes of the regions before it, in input order: that is
\* the offset handed to the i-th mmap call that succeeds and the offset
\* the region built from it records, so the regions lie in the file one
\* after the other as the dump writes them.
C24_CumulativeOffsets ==
    (mapper # NoMapper /\ mapper.file # "none") =>
        /\ \A k \in DOMAIN MmapCalls :
             /\ MmapCalls[k].size = mapper.regions[k][2]
             /\ MmapCalls[k].fd = mapper.file
             /\ MmapCalls[k].ok => MmapCalls[k].fd_off = CumOffset(k)
        /\ \A i \in DOMAIN Built :
             /\ Built[i].start = mapper.regions[i][1]
             /\ Built[i].size = mapper.regions[i][2]
             /\ Built[i].file_offset = FileOffset(mapper.file, CumOffset(i))
             /\ i > 1 => CumOffset(i) = Built[i - 1].file_offset.start + Built[i - 1].size

\* create has mapped two regions of a file from its second page on, the
\* first two pages long.
C24_Witness ==
    /\ Created
    /\ mapper.file = "memory_file"
    /\ mapper.offset = HostPageSize
    /\ Len(Built) = 2
    /\ Built[1].size = 2 * HostPageSize
    /\ Built[2].file_offset.start = 3 * HostPageSize

\* check_serde has described the collection.
Described == descr # NoDescr

BounceMaxLen == 4

\* Largest capacity N of a persistent bounce buffer.
BounceMaxN == 3

\* The content of a guest buffer of len bytes that is written out (the
\* data of test_bounce); a source delivers the same bytes, negated.
BufferData(len) == [k \in 1..len |-> k]
SourceData(len) == [k \in 1..len |-> 0 - k]

NoBounce == [N |-> 0, persistent_buffer |-> FALSE]
NoTarget == [kind |-> "none"]
NoXfer == [op |-> "none"]

BounceIdle ==
    /\ bounce = NoBounce
    /\ target = NoTarget
    /\ xfer = NoXfer

Min3(a, b, c) == Min(a, Min(b, c))

\* T::read_volatile of the target into a buffer of len bytes: Ok with the
\* bytes it delivers (none at the end of the source), or Err when the
\* source is at its failing position.
target_read(t, len) ==
    LET upto == IF t.pos < t.err_pos THEN Min(t.err_pos, Len(t.data)) ELSE Len(t.data)
        n == Min3(len, t.cap, upto - t.pos)
        failing == t.pos = t.err_pos
    IN  [ok |-> ~failing,
         bytes |-> IF failing THEN <<>> ELSE SubSeq(t.data, t.pos + 1, t.pos + n),
         t |-> [t EXCEPT !.pos = IF failing THEN @ ELSE @ + n,
                         !.calls = Append(@, [len |-> len,
                                              n |-> IF failing THEN -1 ELSE n])]]

\* T::write_volatile of the bytes to the target: Ok with the number of
\* bytes it took (none when the sink is full), or Err when the sink is at
\* its failing position.
target_write(t, bytes) ==
    LET upto == IF Len(t.data) < t.err_pos THEN Min(t.err_pos, t.room) ELSE t.room
        n == Min3(Len(bytes), t.cap, upto - Len(t.data))
        failing == Len(t.data) = t.err_pos
    IN  [ok |-> ~failing,
         n |-> IF failing THEN 0 ELSE n,
         t |-> [t EXCEPT !.data = IF failing THEN @ ELSE @ \o SubSeq(bytes, 1, n),
                         !.pos = IF failing THEN @ ELSE @ + n,
                         !.calls = Append(@, [len |-> Len(bytes),
                                              n |-> IF failing THEN -1 ELSE n])]]

\* The bounce buffer of a transfer of buf_len bytes: allocated for the
\* request when N = 0, the persistent one otherwise.
bbuf_len(b, buf_len) == IF b.N = 0 THEN buf_len ELSE b.N

how_much_of_buf(buf_len, bbuf) == buf_len

\* buf.len().min(bbuf.len()), and what buf.copy_to(bbuf) copies.
how_much(buf_len, bbuf) == Min(buf_len, bbuf)

short_only_zero(n, asked) == n = 0

\* The loop leaves after a transfer of fewer bytes than asked for.
short(n, asked) == n < asked

copy_from_front(copied, bytes) == bytes \o copied

\* buf.copy_from(&bbuf[..n]) and buf.offset(n): the bytes land behind the
\* ones copied before.
copy_from(copied, bytes) == copied \o bytes

Drop(seq, n) == SubSeq(seq, n + 1, Len(seq))

RECURSIVE read_loop(_, _, _, _, _)
\* The while loop of the bouncing read_volatile: rest bytes of buf are
\* left, copied are the bytes put into buf so far.
read_loop(t, bbuf, rest, copied, total) ==
    IF rest = 0
    THEN [t |-> t, copied |-> copied, err |-> "none", total |-> total]
    ELSE LET asked == how_much(rest, bbuf)
             r == target_read(t, asked)
             n == Len(r.bytes)
         IN  IF ~r.ok
             THEN [t |-> r.t, copied |-> copied, err |-> "io", total |-> 0]
             ELSE IF short(n, asked)
             THEN [t |-> r.t, copied |-> copy_from(copied, r.bytes), err |-> "none",
                   total |-> total + n]
             ELSE read_loop(r.t, bbuf, rest - n, copy_from(copied, r.bytes), total + n)

\* MaybeBounce::read_volatile into a buffer of buf_len bytes.
read_volatile(b, t, buf_len) ==
    IF b.persistent_buffer
    THEN read_loop(t, bbuf_len(b, buf_len), buf_len, <<>>, 0)
    ELSE LET r == target_read(t, buf_len)
         IN  [t |-> r.t, copied |-> r.bytes, err |-> IF r.ok THEN "none" ELSE "io",
              total |-> Len(r.bytes)]

RECURSIVE write_loop(_, _, _, _)
\* The while loop of the bouncing write_volatile: buf are the bytes left.
write_loop(t, bbuf, buf, total) ==
    IF buf = <<>>
    THEN [t |-> t, err |-> "none", total |-> total]
    ELSE LET asked == how_much(Len(buf), bbuf)
             w == target_write(t, SubSeq(buf, 1, asked))
         IN  IF ~w.ok
             THEN [t |-> w.t, err |-> "io", total |-> 0]
             ELSE IF short(w.n, asked)
             THEN [t |-> w.t, err |-> "none", total |-> total + w.n]
             ELSE write_loop(w.t, bbuf, Drop(buf, w.n), total + w.n)

\* MaybeBounce::write_volatile of the bytes of buf.
write_volatile(b, t, buf) ==
    IF b.persistent_buffer
    THEN write_loop(t, bbuf_len(b, Len(buf)), buf, 0)
    ELSE LET w == target_write(t, buf)
         IN  [t |-> w.t, err |-> IF w.ok THEN "none" ELSE "io", total |-> w.n]

RECURSIVE read_exact_volatile(_, _, _, _)
\* ReadVolatile::read_exact_volatile (vm-memory), as test_bounce calls it:
\* read_volatile until the buffer is full; Ok(0) is UnexpectedEof.
read_exact_volatile(b, t, rest, copied) ==
    IF rest = 0
    THEN [t |-> t, copied |-> copied, err |-> "none"]
    ELSE LET r == read_volatile(b, t, rest)
         IN  IF r.err # "none"
             THEN [t |-> r.t, copied |-> copied \o r.copied, err |-> r.err]
             ELSE IF r.total = 0
             THEN [t |-> r.t, copied |-> copied, err |-> "UnexpectedEof"]
             ELSE read_exact_volatile(b, r.t, rest - r.total, copied \o r.copied)

RECURSIVE write_all_volatile(_, _, _)
\* WriteVolatile::write_all_volatile (vm-memory), as test_bounce calls it:
\* write_volatile until the buffer is written; Ok(0) is WriteZero.
write_all_volatile(b, t, buf) ==
    IF buf = <<>>
    THEN [t |-> t, err |-> "none"]
    ELSE LET w == write_volatile(b, t, buf)
         IN  IF w.err # "none"
             THEN [t |-> w.t, err |-> w.err]
             ELSE IF w.total = 0
             THEN [t |-> w.t, err |-> "WriteZero"]
             ELSE write_all_volatile(b, w.t, Drop(buf, w.total))

\* The adapters of test_bounce and their like: MaybeBounce::new (N = 0)
\* and new_persistent, with should_bounce or without.
Adapters == [N : 0..BounceMaxN, persistent_buffer : BOOLEAN]

Sources ==
    { [kind |-> "source", data |-> SourceData(len), pos |-> 0, room |-> len,
       cap |-> cap, err_pos |-> e, calls |-> <<>>] :
        len \in 0..BounceMaxLen, cap \in 1..BounceMaxLen, e \in {-1, 2} }

Sinks ==
    { [kind |-> "sink", data |-> <<>>, pos |-> 0, room |-> room,
       cap |-> cap, err_pos |-> e, calls |-> <<>>] :
        room \in 0..BounceMaxLen, cap \in 1..BounceMaxLen, e \in {-1, 2} }

BounceInit ==
    /\ bounce \in Adapters
    /\ target \in Sources \cup Sinks
    /\ xfer = NoXfer

\* A target at the start of a transfer: no call made on it yet.
Fresh(t) == [t EXCEPT !.calls = <<>>]

\* activate(): from now on transfers go through a bounce buffer.
Activate ==
    /\ ~bounce.persistent_buffer
    /\ bounce' = [bounce EXCEPT !.persistent_buffer = TRUE]
    /\ xfer' = NoXfer
    /\ UNCHANGED <<target, uffd_vars, dump_vars, image_vars, track_vars, vm_vars,
                   mapper_vars, slice_vars, tail_vars>>

\* One read_volatile of the adapter into a guest buffer of len bytes.
ReadVolatile ==
    /\ target.kind = "source"
    /\ \E len \in 0..BounceMaxLen :
         \E r \in {read_volatile(bounce, Fresh(target), len)} :
           /\ target' = r.t
           /\ xfer' = [op |-> "read_volatile", len |-> len, before |-> Fresh(target),
                       copied |-> r.copied, err |-> r.err, total |-> r.total]
    /\ UNCHANGED <<bounce, uffd_vars, dump_vars, image_vars, track_vars, vm_vars,
                   mapper_vars, slice_vars, tail_vars>>

\* One write_volatile of the adapter from a guest buffer of len bytes.
WriteVolatile ==
    /\ target.kind = "sink"
    /\ \E len \in 0..BounceMaxLen :
         \E w \in {write_volatile(bounce, Fresh(target), BufferData(len))} :
           /\ target' = w.t
           /\ xfer' = [op |-> "write_volatile", len |-> len, before |-> Fresh(target),
                       copied |-> <<>>, err |-> w.err, total |-> w.total]
    /\ UNCHANGED <<bounce, uffd_vars, dump_vars, image_vars, track_vars, vm_vars,
                   mapper_vars, slice_vars, tail_vars>>

\* read_exact_volatile through the adapter, as in test_bounce.
ReadExactVolatile ==
    /\ target.kind = "source"
    /\ \E len \in 0..BounceMaxLen :
         \E r \in {read_exact_volatile(bounce, Fresh(target), len, <<>>)} :
           /\ target' = r.t
           /\ xfer' = [op |-> "read_exact_volatile", len |-> len,
                       before |-> Fresh(target), copied |-> r.copied, err |-> r.err,
                       total |-> Len(r.copied)]
    /\ UNCHANGED <<bounce, uffd_vars, dump_vars, image_vars, track_vars, vm_vars,
                   mapper_vars, slice_vars, tail_vars>>

\* write_all_volatile through the adapter, as in test_bounce.
WriteAllVolatile ==
    /\ target.kind = "sink"
    /\ \E len \in 0..BounceMaxLen :
         \E w \in {write_all_volatile(bounce, Fresh(target), BufferData(len))} :
           /\ target' = w.t
           /\ xfer' = [op |-> "write_all_volatile", len |-> len,
                       before |-> Fresh(target), copied |-> <<>>, err |-> w.err,
                       total |-> w.t.pos - target.pos]
    /\ UNCHANGED <<bounce, uffd_vars, dump_vars, image_vars, track_vars, vm_vars,
                   mapper_vars, slice_vars, tail_vars>>

(***************************************************************************)
(* Part VII.  Properties of the bounce-buffer adapter                      *)
(***************************************************************************)

\* The adapter bounces through its persistent buffer of N > 0 bytes.
Persistent == bounce.persistent_buffer /\ bounce.N > 0

RECURSIVE Reported(_, _)
\* The bytes the first k calls on the target reported.
Reported(calls, k) == IF k = 0 THEN 0 ELSE Reported(calls, k - 1) + calls[k].n

\* C27: an activated persistent adapter of capacity N > 0 never calls its
\* target with more than N bytes; one read_volatile or write_volatile of L
\* bytes is a chain of calls, the k-th for the next (at most N) bytes of the
\* buffer behind what the calls before it reported, and the total returned
\* is the sum of what the calls reported.
C27_ChunkedTransfers ==
    (xfer.op # "none" /\ Persistent) =>
        /\ \A k \in DOMAIN target.calls : target.calls[k].len <= bounce.N
        /\ xfer.op \in {"read_volatile", "write_volatile"} =>
             /\ \A k \in DOMAIN target.calls :
                  target.calls[k].len =
                      Min(bounce.N, xfer.len - Reported(target.calls, k - 1))
             /\ xfer.err = "none" =>
                  xfer.total = Reported(target.calls, Len(target.calls))

\* A transfer of a length N does not divide, done in several calls.
C27_Witness ==
    /\ xfer.op = "read_volatile" /\ Persistent
    /\ Len(target.calls) >= 2
    /\ xfer.len % bounce.N # 0
    /\ xfer.total = xfer.len

\* What the transfer that just returned does through a MaybeBounce that
\* was never activated, on the same target and the same guest buffer.
Direct ==
    IF xfer.op = "read_exact_volatile"
    THEN read_exact_volatile(NoBounce, xfer.before, xfer.len, <<>>)
    ELSE [copied |-> <<>>] @@ write_all_volatile(NoBounce, xfer.before,
                                                 BufferData(xfer.len))

\* C28: a transfer (write_all_volatile, read_exact_volatile) through an
\* adapter, bouncing on demand (N = 0), through a persistent buffer of any
\* N > 0 or not at all, moves the bytes the non-bouncing adapter moves, in
\* the same order: the guest buffer after a read, the sink after a write,
\* the position of the stream and the outcome are the same.
C28_BouncingIsTransparent ==
    xfer.op \in {"read_exact_volatile", "write_all_volatile"} =>
        /\ xfer.copied = Direct.copied
        /\ target.data = Direct.t.data
        /\ target.pos = Direct.t.pos
        /\ xfer.err = Direct.err

\* A read and a write of a length N does not divide, through a persistent
\* buffer, and a read through a buffer allocated on demand.
C28_Witness ==
    /\ xfer.op \in {"read_exact_volatile", "write_all_volatile"}
    /\ Persistent
    /\ xfer.len % bounce.N # 0
    /\ Len(target.calls) >= 2
    /\ xfer.err = "none"
    /\ xfer.total = xfer.len

C28_WitnessOnDemand ==
    /\ xfer.op = "read_exact_volatile"
    /\ bounce.persistent_buffer /\ bounce.N = 0
    /\ xfer.copied = xfer.before.data
    /\ xfer.len = BounceMaxLen

\* An underlying read that returned fewer bytes than it was asked for.
IsShort(call) == call.n >= 0 /\ call.n < call.len

\* C29: in a bouncing read_volatile, a read of the target that returns
\* fewer bytes than asked for (zero included) is the last one, and the
\* adapter returns the number of bytes received so far, all of them in the
\* guest buffer in the order of the source.
C29_ShortReadEndsLoop ==
    (xfer.op = "read_volatile" /\ bounce.persistent_buffer) =>
        \A k \in DOMAIN target.calls :
            IsShort(target.calls[k]) =>
                /\ k = Len(target.calls)
                /\ xfer.err = "none"
                /\ xfer.total = Reported(target.calls, k)
                /\ xfer.copied = SubSeq(xfer.before.data, xfer.before.pos + 1,
                                        xfer.before.pos + xfer.total)

\* A short read behind a full one, and a read that returned nothing.
C29_Witness ==
    /\ xfer.op = "read_volatile" /\ Persistent
    /\ Len(target.calls) = 2
    /\ ~IsShort(target.calls[1])
    /\ IsShort(target.calls[2]) /\ target.calls[2].n > 0
    /\ xfer.total = bounce.N + target.calls[2].n

C29_WitnessZero ==
    /\ xfer.op = "read_volatile" /\ bounce.persistent_buffer
    /\ Len(target.calls) = 2
    /\ target.calls[2].n = 0
    /\ xfer.total = target.calls[1].n

(***************************************************************************)
(* Part VIII.  Slices of a region                                          *)
(***************************************************************************)

NoSlice == [op |-> "none"]

SliceIdle == slice = NoSlice

\* No VolatileSlice.
NoVolatileSlice == [some |-> FALSE, region |-> 0, offset |-> 0, count |-> 0]

\* volatile_memory::compute_offset (vm-memory): base + offset, an error on
\* overflow of usize (64 bits on the targets of the monitor).
compute_offset(base, offset) == checked_add(base, offset)

exits_or_ends(end_addr, len) == end_addr >= len

\* The range ends behind the region.
exits(end_addr, len) == end_addr > len

\* KvmRegion::get_slice on region i of the collection: the VolatileSlice or
\* the error.  The Overflow of compute_offset converts to
\* InvalidBackendAddress.
get_slice(regions, i, offset, count) ==
    LET end_addr == compute_offset(offset, count)
    IN  IF end_addr = -1 \/ exits(end_addr, regions[i].memory_size)
        THEN [err |-> "InvalidBackendAddress", slice |-> NoVolatileSlice]
        ELSE [err |-> "none",
              slice |-> [some |-> TRUE, region |-> i, offset |-> offset,
                         count |-> count]]

\* The offsets and counts of get_slice: in the region, at its end, behind
\* it and at the end of the address space.
SliceOffsets(len) == {0, 1, HostPageSize, len - 1, len, len + 1, U64_MAX - 1, U64_MAX}
SliceCounts(len) == {0, 1, HostPageSize, len - 1, len, len + 1, U64_MAX}

SliceInit == TrackInit /\ SliceIdle

\* get_slice of a region.
GetSlice ==
    /\ \E i \in DOMAIN gm_regions :
         \E offset \in SliceOffsets(gm_regions[i].memory_size),
            count \in SliceCounts(gm_regions[i].memory_size) :
           \E r \in {get_slice(gm_regions, i, offset, count)} :
             slice' = [op |-> "get_slice", region |-> i, offset |-> offset,
                       count |-> count, err |-> r.err, slice |-> r.slice,
                       bitmap |-> fc_bitmap[i], at |-> 0, len |-> 0,
                       marked |-> fc_bitmap]
    /\ last_dump' = NoDump
    /\ last_op' = NoOp
    /\ UNCHANGED <<gm_regions, fc_bitmap, uffd_vars, image_vars, vm_vars, mapper_vars,
                   bounce_vars, tail_vars>>

slice_at_zero(offset) == 0

\* self.bitmap.slice_at(offset): the base of the part of the bitmap that the
\* slice carries.
slice_at(offset) == offset

\* A write of len bytes at at of the slice handed out last: the slice marks
\* the written pages in the part of the bitmap it carries.
SliceWrite ==
    /\ slice # NoSlice
    /\ slice.slice.some
    /\ \E at \in {0, 1, HostPageSize}, len \in {1, HostPageSize} :
         /\ at + len <= slice.slice.count
         /\ fc_bitmap' = [fc_bitmap EXCEPT ![slice.slice.region] =
                             bitmap_mark_dirty(@, slice_at(slice.slice.offset) + at, len)]
         /\ slice' = [slice EXCEPT !.op = "write", !.bitmap = fc_bitmap[slice.region],
                                   !.at = at, !.len = len, !.marked = fc_bitmap']
    /\ last_dump' = NoDump
    /\ last_op' = NoOp
    /\ UNCHANGED <<gm_regions, uffd_vars, image_vars, vm_vars, mapper_vars, bounce_vars,
                   tail_vars>>

(***************************************************************************)
(* Part VIII.  Properties of get_slice                                     *)
(***************************************************************************)

\* C30: get_slice(offset, count) of a region succeeds exactly when offset +
\* count does not overflow and is at most the length of the region (equal
\* to it included); otherwise it fails with InvalidBackendAddress, hands
\* out no slice and leaves every dirty bit as it was.  Dirty bits change
\* only by a write through a slice that was handed out, in its region.
C30_GetSliceBounds ==
    [][/\ slice'.op = "get_slice" =>
            LET len == gm_regions[slice'.region].memory_size
                fits == /\ slice'.offset <= U64_MAX - slice'.count
                        /\ slice'.offset + slice'.count <= len
            IN  /\ (slice'.err = "none") <=> fits
                /\ fits => slice'.slice = [some |-> TRUE, region |-> slice'.region,
                                           offset |-> slice'.offset,
                                           count |-> slice'.count]
                /\ ~fits => /\ slice'.err = "InvalidBackendAddress"
                            /\ slice'.slice = NoVolatileSlice
                /\ fc_bitmap' = fc_bitmap
       /\ fc_bitmap' # fc_bitmap =>
            /\ slice.err = "none" /\ slice.slice.some
            /\ \A i \in DOMAIN gm_regions :
                 i # slice.slice.region => fc_bitmap'[i] = fc_bitmap[i]
      ]_vars

\* A slice up to the last byte of the region, written to with tracking on.
C30_Witness ==
    /\ slice # NoSlice
    /\ slice.op = "write"
    /\ slice.offset > 0
    /\ slice.offset + slice.count = gm_regions[slice.region].memory_size
    /\ fc_bitmap[slice.region] # slice.bitmap

\* The pages the last write through the slice touched.
Touched ==
    { <<slice.region, n>> : n \in PagesOf(slice.offset + slice.at, slice.len) }

\* C37: a write through a slice of a region with dirty tracking marks every
\* page it touches dirty in the monitor-owned bitmap, and the dump_dirty
\* that follows writes those pages whatever the hypervisor bitmap reports
\* (or, when its writer fails, leaves them dirty).
C37_WritesAreDumped ==
    (slice # NoSlice /\ slice.op = "write" /\ slice.bitmap.some) =>
        /\ Touched \subseteq FcDirty(gm_regions, slice.marked)
        /\ (Dumped /\ last_dump.fc_before = slice.marked) =>
             /\ last_dump.result = "ok" => Touched \subseteq WrittenPages(last_dump.log)
             /\ last_dump.result = "err" => Touched \subseteq FcDirty(gm_regions, fc_bitmap)

\* A write over the end of a page of the second region, dumped with a
\* hypervisor bitmap that reports none of its pages.
C37_Witness ==
    /\ slice # NoSlice /\ slice.op = "write" /\ slice.bitmap.some
    /\ Dumped /\ last_dump.fc_before = slice.marked
    /\ last_dump.result = "ok"
    /\ slice.offset > 0
    /\ Touched \cap KvmDirty(gm_regions, last_dump.dirty_bitmap) = {}
    /\ Touched \subseteq WrittenPages(last_dump.log)

\* A range that overflows, and one that ends one byte behind the region.
C30_WitnessOverflow ==
    /\ slice # NoSlice
    /\ slice.op = "get_slice"
    /\ slice.offset > U64_MAX - slice.count
    /\ slice.err = "InvalidBackendAddress"

C30_WitnessBehind ==
    /\ slice # NoSlice
    /\ slice.op = "get_slice"
    /\ slice.offset + slice.count = gm_regions[slice.region].memory_size + 1
    /\ slice.err = "InvalidBackendAddress"

(***************************************************************************)
(* Part IX.  The initrd loader                                             *)
(*                                                                         *)
(* The reader is a stream of which available bytes are left; the bytes of  *)
(* the image are not told apart, only how many are read and where they are *)
(* written.                                                                *)
(***************************************************************************)

NoInitrd == [op |-> "none"]

InitrdIdle == initrd = NoInitrd

\* The guest memories of the tests: single_region_mem(size) and
\* single_region_mem_at(at, size).
single_region_mem_at(at, size) == << KvmRegion(0, at, size) >>
single_region_mem(size) == single_region_mem_at(0, size)

\* Sizes of an image (make_test_bin and the image of
\* test_load_initrd_unaligned, scaled).
InitrdSizes == {0, 4, HostPageSize, HostPageSize + 4}

InitrdMemories ==
    { single_region_mem(79), single_region_mem(HostPageSize),
      single_region_mem(2 * (HostPageSize + 4) + HostPageSize),
      single_region_mem_at(HostPageSize + 1, 8),
      single_region_mem_at(HostPageSize, 2 * HostPageSize) }

\* Number of pages of the guest address space of the loader.
InitrdMaxPages == 4

\* The page-aligned guest addresses.
PageAligned == { k * HostPageSize : k \in 0..InitrdMaxPages }

\* The guest addresses at which size bytes lie in one region of the memory.
Accommodates(mem, size) ==
    { a \in PageAligned :
        \E i \in DOMAIN mem :
            /\ mem[i].guest_phys_addr <= a
            /\ a + size <= mem[i].guest_phys_addr + mem[i].memory_size
            /\ a < mem[i].guest_phys_addr + mem[i].memory_size }

\* arch::initrd_load_addr: None (-1) when the memory cannot accommodate the
\* image at a page-aligned address, else some page-aligned address of the
\* guest address space; which one is not told, and the loader does not rely
\* on it.
initrd_load_addr(mem, size) ==
    IF Accommodates(mem, size) = {} THEN {-1}
    ELSE PageAligned

\* GuestMemory::get_slice (vm-memory): the region holding addr, and its
\* get_slice for the offset of addr in it.
memory_get_slice(mem, addr, count) ==
    LET i == find_region(mem, addr)
    IN  IF i = 0 THEN [err |-> "InvalidGuestAddress", slice |-> NoVolatileSlice]
        ELSE get_slice(mem, i, addr - mem[i].guest_phys_addr, count)

\* read_exact_volatile of the reader into a slice of count bytes: the
\* bytes read and the outcome (UnexpectedEof when the reader ends early).
reader_read_exact(available, count) ==
    [n |-> Min(available, count),
     err |-> IF available < count THEN "Read" ELSE "none"]

\* from_reader reading the image before it fails.
from_reader_read_first(mem, available, size, address) ==
    LET rd == reader_read_exact(available, size)
    IN  [err |-> "Address", address |-> 0, size |-> 0, read |-> rd.n,
         written |-> [addr |-> 0, len |-> 0]]

\* The early return of from_reader when initrd_load_addr gave None.
from_reader_no_address(mem, available, size, address) ==
    [err |-> "Address", address |-> 0, size |-> 0, read |-> 0,
     written |-> [addr |-> 0, len |-> 0]]

\* InitrdConfig::from_reader, address being what initrd_load_addr gave: its
\* result, the bytes it read from the reader and the guest memory it wrote.
from_reader(mem, available, size, address) ==
    IF address = -1 THEN from_reader_no_address(mem, available, size, address)
    ELSE LET s == memory_get_slice(mem, address, size)
         IN  IF s.err # "none"
             THEN [err |-> "Load", address |-> 0, size |-> 0, read |-> 0,
                   written |-> [addr |-> 0, len |-> 0]]
             ELSE LET rd == reader_read_exact(available, size)
                  IN  [err |-> rd.err,
                       address |-> IF rd.err = "none" THEN address ELSE 0,
                       size |-> IF rd.err = "none" THEN size ELSE 0,
                       read |-> rd.n,
                       written |-> [addr |-> address, len |-> rd.n]]

InitrdInit ==
    \E mem \in InitrdMemories, available \in InitrdSizes :
        initrd = [op |-> "none", mem |-> mem, available |-> available]

\* from_reader on the memory, for an image of size bytes, with a reader at
\* its start.
FromReader ==
    /\ initrd.op = "none"
    /\ \E size \in InitrdSizes :
         \E address \in initrd_load_addr(initrd.mem, size) :
           \E r \in {from_reader(initrd.mem, initrd.available, size, address)} :
             initrd' = [op |-> "from_reader", mem |-> initrd.mem,
                        available |-> initrd.available - r.read,
                        before |-> initrd.available,
                        asked |-> size, load_addr |-> address, result |-> r]
    /\ UNCHANGED <<uffd_vars, dump_vars, image_vars, track_vars, vm_vars, mapper_vars,
                   bounce_vars, slice_vars, memfd, threads, dumper>>

(***************************************************************************)
(* Part IX.  Properties of the initrd loader                               *)
(***************************************************************************)

\* GuestMemory::address_in_range.
address_in_range(mem, addr) == find_region(mem, addr) # 0

\* C31: from_reader fails with Address when no load address can be computed
\* (the memory is too small for the image, or holds no page-aligned address
\* for it), having read nothing from the reader and written no guest
\* memory; when it succeeds, the address it returns is in the guest memory
\* and the size it returns is the size asked for.
C31_InitrdAddress ==
    initrd.op = "from_reader" =>
        /\ Accommodates(initrd.mem, initrd.asked) = {} =>
             /\ initrd.result.err = "Address"
             /\ initrd.available = initrd.before
             /\ initrd.result.written.len = 0
        /\ initrd.result.err = "none" =>
             /\ address_in_range(initrd.mem, initrd.result.address)
             /\ initrd.result.size = initrd.asked
             /\ initrd.result.written = [addr |-> initrd.result.address,
                                         len |-> initrd.asked]

\* The image does not fit (test_load_initrd_no_memory); the memory holds no
\* aligned address (test_load_initrd_unaligned); a load that succeeds.
C31_Witness ==
    /\ initrd.op = "from_reader"
    /\ initrd.mem = single_region_mem(79)
    /\ initrd.asked = HostPageSize + 4
    /\ initrd.before >= initrd.asked
    /\ initrd.result.err = "Address"

C31_WitnessUnaligned ==
    /\ initrd.op = "from_reader"
    /\ initrd.mem = single_region_mem_at(HostPageSize + 1, 8)
    /\ initrd.asked = 4
    /\ initrd.result.err = "Address"

C31_WitnessLoaded ==
    /\ initrd.op = "from_reader"
    /\ initrd.asked = HostPageSize + 4
    /\ initrd.result.err = "none"
    /\ initrd.result.address > 0

(***************************************************************************)
(* Part X.  The sealed memory file                                         *)
(***************************************************************************)

NoMemfd == [op |-> "none"]

MemfdIdle == memfd = NoMemfd

\* The seals of a memfd (memfd::FileSeal).
FileSeals == {"SealShrink", "SealGrow", "SealSeal", "SealWrite"}

\* Size of a huge page, in pages of the host (scaled).
HugePage == 2 * HostPageSize

\* The lengths asked of set_len.
MemfdSizes == {0, 105, HostPageSize, HugePage, 2 * HugePage}

\* MemfdOptions::create with allow_sealing(true): an empty file that can be
\* sealed.
memfd_create(hugetlb) == [len |-> 0, seals |-> {}, hugetlb |-> hugetlb]

\* File::set_len (ftruncate) on a memfd: refused (EPERM) when it shrinks a
\* file sealed against shrinking or grows one sealed against growing, and
\* (EINVAL) for a length that is no multiple of the huge page size.
set_len(file, len) ==
    IF \/ len < file.len /\ "SealShrink" \in file.seals
       \/ len > file.len /\ "SealGrow" \in file.seals
    THEN [err |-> "EPERM", file |-> file]
    ELSE IF file.hugetlb /\ len % HugePage # 0
    THEN [err |-> "EINVAL", file |-> file]
    ELSE [err |-> "none", file |-> [file EXCEPT !.len = len]]

\* Memfd::add_seals (F_ADD_SEALS): refused once the file carries SealSeal.
add_seals(file, seals) ==
    IF "SealSeal" \in file.seals
    THEN [err |-> "EPERM", file |-> file]
    ELSE [err |-> "none", file |-> [file EXCEPT !.seals = @ \cup seals]]

seal_nothing(file) == [err |-> "none", file |-> file]

\* The last step of create_memfd: no further change of the seals.
seal_seals(file) == add_seals(file, {"SealSeal"})

\* create_memfd: the file it returns, or the error.
create_memfd(mem_size, hugetlb) ==
    LET created == memfd_create(hugetlb)
        sized == set_len(created, mem_size)
        sealed == add_seals(sized.file, {"SealShrink", "SealGrow"})
        final == seal_seals(sealed.file)
    IN  IF sized.err # "none" THEN [err |-> "MemfdSetLen", file |-> sized.file]
        ELSE IF sealed.err # "none" THEN [err |-> "Memfd", file |-> sealed.file]
        ELSE IF final.err # "none" THEN [err |-> "Memfd", file |-> final.file]
        ELSE [err |-> "none", file |-> final.file]

MemfdInit == memfd = NoMemfd

\* create_memfd(mem_size, hugetlb_size).
CreateMemfd ==
    /\ memfd = NoMemfd
    /\ \E mem_size \in MemfdSizes, hugetlb \in BOOLEAN :
         \E r \in {create_memfd(mem_size, hugetlb)} :
           memfd' = [op |-> "create_memfd", mem_size |-> mem_size, err |-> r.err,
                     len |-> mem_size, seals |-> {}, file |-> r.file]
    /\ UNCHANGED <<uffd_vars, dump_vars, image_vars, track_vars, vm_vars, mapper_vars,
                   bounce_vars, slice_vars, initrd, threads, dumper>>

\* A holder of the file that create_memfd returned calls set_len on it.
SetLen ==
    /\ memfd # NoMemfd
    /\ memfd.op = "create_memfd" => memfd.err = "none"
    /\ \E len \in MemfdSizes :
         \E r \in {set_len(memfd.file, len)} :
           memfd' = [op |-> "set_len", mem_size |-> memfd.mem_size, err |-> r.err,
                     len |-> len, seals |-> {}, file |-> r.file]
    /\ UNCHANGED <<uffd_vars, dump_vars, image_vars, track_vars, vm_vars, mapper_vars,
                   bounce_vars, slice_vars, initrd, threads, dumper>>

\* A holder of the file that create_memfd returned adds seals to it.
AddSeals ==
    /\ memfd # NoMemfd
    /\ memfd.op = "create_memfd" => memfd.err = "none"
    /\ \E seals \in (SUBSET FileSeals) \ {{}} :
         \E r \in {add_seals(memfd.file, seals)} :
           memfd' = [op |-> "add_seals", mem_size |-> memfd.mem_size, err |-> r.err,
                     len |-> memfd.file.len, seals |-> seals, file |-> r.file]
    /\ UNCHANGED <<uffd_vars, dump_vars, image_vars, track_vars, vm_vars, mapper_vars,
                   bounce_vars, slice_vars, initrd, threads, dumper>>

(***************************************************************************)
(* Part X.  Properties of the sealed memory file                           *)
(***************************************************************************)

\* C32: the file create_memfd returned has the length asked for, and from
\* then on every set_len to another length and every add_seals fails and
\* leaves the length and the seals as they were.
C32_SealedMemfd ==
    memfd # NoMemfd =>
        /\ (memfd.op = "create_memfd" /\ memfd.err = "none") =>
               memfd.file.len = memfd.mem_size
        /\ memfd.op \in {"set_len", "add_seals"} =>
               /\ memfd.file.len = memfd.mem_size
               /\ memfd.file.seals = {"SealShrink", "SealGrow", "SealSeal"}
               /\ memfd.op = "add_seals" => memfd.err # "none"
               /\ (memfd.op = "set_len" /\ memfd.len # memfd.mem_size) =>
                      memfd.err # "none"

\* A refused set_len and then a refused add_seals (test_create_memfd).
C32_Witness ==
    /\ memfd # NoMemfd
    /\ memfd.op = "add_seals"
    /\ memfd.seals = {"SealGrow"}
    /\ memfd.err = "EPERM"
    /\ memfd.file.len = HugePage

C32_WitnessSetLen ==
    /\ memfd # NoMemfd
    /\ memfd.op = "set_len" /\ memfd.len = 105
    /\ memfd.err = "EPERM"
    /\ memfd.file.len = HostPageSize

(***************************************************************************)
(* Part XI.  Dirty tracking and dump_dirty under concurrent use            *)
(***************************************************************************)

NoThreads == <<>>
NoDumper == [pc |-> "none"]

ConcIdle ==
    /\ threads = NoThreads
    /\ dumper = NoDumper

\* Number of threads that call mark_dirty.
ConcThreads == 2

\* The arguments of the mark_dirty calls of the threads: in the first page,
\* over its end, in the second page, from the second page on.
ConcCalls ==
    { [addr |-> 0, len |-> 1], [addr |-> HostPageSize - 1, len |-> 2],
      [addr |-> HostPageSize, len |-> 1], [addr |-> HostPageSize, len |-> HostPageSize + 1] }

RECURSIVE mark_steps(_)
\* The atomic operations of one mark_dirty: for every bitmap.mark_dirty call
\* that try_access makes, one fetch_or per page of its range, ascending
\* (AtomicBitmap::set_addr_range).
mark_steps(calls) ==
    IF calls = <<>> THEN <<>>
    ELSE LET c == Head(calls)
             first == c.start \div HostPageSize
             last == (c.start + c.count - 1) \div HostPageSize
         IN  [k \in 1..(last - first + 1) |-> [region |-> c.region, page |-> first + k - 1]]
             \o mark_steps(Tail(calls))

\* The pages that share the word of the bitmap with page n.
WordOf(n) == { m \in 0..(DumpMaxPages * WORD_BITS) : m \div WORD_BITS = n \div WORD_BITS }

store_bit(bitmap, n) ==
    IF ~bitmap.some \/ n >= bitmap.size THEN bitmap
    ELSE [bitmap EXCEPT !.bits = (@ \ WordOf(n)) \cup {n}]

\* The fetch_or of the bit of page n into its word of the bitmap: one
\* atomic read-modify-write.
fetch_or(bitmap, n) ==
    IF ~bitmap.some \/ n >= bitmap.size THEN bitmap
    ELSE [bitmap EXCEPT !.bits = @ \cup {n}]

\* The dirty_bitmap handed to dump_dirty: no page, or the first page of the
\* first region.
ConcKvm(regions) ==
    { [i \in DOMAIN regions |-> IF i = 1 THEN d ELSE {}] : d \in {{}, {0}} }

ConcInit ==
    /\ TrackInit
    /\ threads \in [1..ConcThreads ->
                      { [addr |-> c.addr, len |-> c.len,
                         todo |-> mark_steps(try_access(gm_regions, c.len, c.addr, 0))] :
                          c \in ConcCalls }]
    /\ dumper = NoDumper

\* dump_dirty is between its first and its last step.
Dumping == dumper.pc \in {"scan", "reset"}

\* The pages of a batch.
BatchPages(region, start, size) ==
    { <<region, n>> : n \in PagesOf(start, size) }

\* Thread t does the next fetch_or of its mark_dirty.  A page marked while
\* dump_dirty runs is remembered until dump_dirty writes it.
MarkStep(t) ==
    /\ threads[t].todo # <<>>
    /\ LET step == Head(threads[t].todo)
           bitmap == fc_bitmap[step.region]
       IN  /\ fc_bitmap' = [fc_bitmap EXCEPT ![step.region] = fetch_or(@, step.page)]
           /\ dumper' = IF Dumping /\ bitmap.some /\ step.page < bitmap.size
                        THEN [dumper EXCEPT !.late = @ \cup {<<step.region, step.page>>}]
                        ELSE dumper
    /\ threads' = [threads EXCEPT ![t].todo = Tail(@)]
    /\ UNCHANGED <<gm_regions, last_dump, uffd_vars, image_vars, track_vars, vm_vars,
                   mapper_vars, bounce_vars, slice_vars, initrd, memfd>>

\* dump_dirty is called.
DumpStart ==
    /\ dumper = NoDumper
    /\ \E kvm_bitmap \in ConcKvm(gm_regions) :
         dumper' = [pc |-> "scan", region |-> 1, page |-> 0, write_size |-> 0,
                    dirty_batch_start |-> 0, kvm |-> kvm_bitmap, writes |-> <<>>,
                    late |-> {}]
    /\ UNCHANGED <<threads, dump_vars, uffd_vars, image_vars, track_vars, vm_vars,
                   mapper_vars, bounce_vars, slice_vars, initrd, memfd>>

\* The batch of dump_dirty written out: one write of the pages of the batch.
flush(d) ==
    IF d.write_size = 0 THEN d
    ELSE [d EXCEPT !.writes = Append(@, [region |-> d.region,
                                         start |-> d.dirty_batch_start,
                                         size |-> d.write_size]),
                   !.late = @ \ BatchPages(d.region, d.dirty_batch_start, d.write_size),
                   !.write_size = 0]

\* One turn of the loop over the pages of a region: the two bitmaps are
\* read, and the batch is opened, extended or written.
DumpScan ==
    /\ dumper.pc = "scan"
    /\ dumper.page < Pages(gm_regions[dumper.region])
    /\ LET page_offset == dumper.page * HostPageSize
           is_kvm_page_dirty == dumper.page \in dumper.kvm[dumper.region]
           is_firecracker_page_dirty == dirty_at(fc_bitmap[dumper.region], page_offset)
       IN  dumper' =
             IF is_kvm_page_dirty \/ is_firecracker_page_dirty
             THEN [dumper EXCEPT !.dirty_batch_start =
                                     IF dumper.write_size = 0 THEN page_offset ELSE @,
                                 !.write_size = @ + HostPageSize,
                                 !.page = @ + 1]
             ELSE [flush(dumper) EXCEPT !.page = @ + 1]
    /\ UNCHANGED <<threads, dump_vars, uffd_vars, image_vars, track_vars, vm_vars,
                   mapper_vars, bounce_vars, slice_vars, initrd, memfd>>

\* The end of a region: the open batch is written, and the next region or
\* reset_dirty follows.
DumpEndRegion ==
    /\ dumper.pc = "scan"
    /\ dumper.page = Pages(gm_regions[dumper.region])
    /\ dumper' = IF dumper.region < Len(gm_regions)
                 THEN [flush(dumper) EXCEPT !.region = @ + 1, !.page = 0]
                 ELSE [flush(dumper) EXCEPT !.pc = "reset", !.region = 1, !.page = 0]
    /\ UNCHANGED <<threads, dump_vars, uffd_vars, image_vars, track_vars, vm_vars,
                   mapper_vars, bounce_vars, slice_vars, initrd, memfd>>

\* reset_dirty: the bitmap of the next region is reset; after the last one
\* dump_dirty returns.
DumpReset ==
    /\ dumper.pc = "reset"
    /\ fc_bitmap' = [fc_bitmap EXCEPT ![dumper.region] =
                        IF @.some THEN bitmap_reset(@) ELSE @]
    /\ dumper' = IF dumper.region < Len(gm_regions)
                 THEN [dumper EXCEPT !.region = @ + 1]
                 ELSE [dumper EXCEPT !.pc = "done"]
    /\ UNCHANGED <<threads, gm_regions, last_dump, uffd_vars, image_vars, track_vars,
                   vm_vars, mapper_vars, bounce_vars, slice_vars, initrd, memfd>>

(***************************************************************************)
(* Part XI.  Properties under concurrent use                               *)
(***************************************************************************)

\* Every thread has returned from its mark_dirty.
AllMarked == \A t \in DOMAIN threads : threads[t].todo = <<>>

\* The bitmaps before any call.
CleanBitmaps == [i \in DOMAIN fc_bitmap |-> bitmap_reset(fc_bitmap[i])]

\* C33: concurrent mark_dirty calls lose no update: when all of them have
\* returned (and no dump_dirty ran), the dirty pages of every region are
\* the union of the pages each call marks on its own, whatever the
\* interleaving, also for calls that touch the same word or the same page.
C33_NoLostMark ==
    (threads # NoThreads /\ AllMarked /\ dumper = NoDumper) =>
        \A i \in DOMAIN gm_regions :
            fc_bitmap[i].bits =
                UNION { mark_dirty(gm_regions, CleanBitmaps, threads[t].addr,
                                   threads[t].len)[i].bits : t \in DOMAIN threads }

\* Two calls that mark different pages of one word, one of them also the
\* page the other marks.
C33_Witness ==
    /\ threads # NoThreads /\ AllMarked /\ dumper = NoDumper
    /\ threads[1].addr = HostPageSize - 1 /\ threads[1].len = 2
    /\ threads[2].addr = 0 /\ threads[2].len = 1
    /\ fc_bitmap[1].bits = {0, 1}

\* C35: a page marked dirty in the monitor-owned bitmap while dump_dirty is
\* in progress is not lost: when dump_dirty has returned, the page was
\* written by it after it was marked, or it is still dirty in the bitmap.
C35_NoLostPage ==
    dumper.pc = "done" =>
        \A p \in dumper.late : p[2] \in fc_bitmap[p[1]].bits

\* A page marked during a dump and written by it afterwards.
C35_WrittenAfterMark ==
    /\ dumper.pc = "done"
    /\ dumper.late = {}
    /\ dumper.writes # <<>>
    /\ dumper.kvm[1] = {}

(***************************************************************************)
(* Part XII.  The slot a region carries and the slot it is registered under *)
(***************************************************************************)

\* A Vm of vm.rs that create_common has created, no memory yet.
SlotsInit ==
    /\ kvm \in [max_nr_memslots : 1..VmMaxSlots, calls : {<<>>}]
    /\ vm = [NoVm EXCEPT !.rev = "vm.rs", !.pc = "created",
                         !.max_memslots = kvm.max_nr_memslots]
    /\ vm_input = NoInput

\* Where insert_region's sort_by_key puts a region that starts at start.
position(regions, start) ==
    Cardinality({ i \in DOMAIN regions : regions[i].guest_phys_addr <= start }) + 1

\* GuestRegionCollection::insert_region: the region pushed and the regions
\* sorted by start address.
insert_region(seq, p, x) ==
    SubSeq(seq, 1, p - 1) \o <<x>> \o SubSeq(seq, p, Len(seq))

\* The next region supplied to the collection: a one-page region at a page
\* that leaves a gap to its neighbours, carrying the next slot of
\* zip(0u32..) (tests::kvmify), inserted with insert_region.
InsertRegion ==
    /\ vm.pc = "created"
    /\ Len(gm_regions) < VmMaxSlots
    /\ \E n \in 0..VmMaxSlots, track_dirty_pages \in BOOLEAN :
         LET start == 2 * n * HostPageSize
             region == MmapRegion(start, HostPageSize, {"MAP_PRIVATE", "MAP_ANONYMOUS"},
                                  "none", track_dirty_pages, 0)
             kvm_region == from_mmap_region(region, Len(gm_regions), NoFileOffset)
             p == position(gm_regions, start)
         IN  /\ \A i \in DOMAIN gm_regions : gm_regions[i].guest_phys_addr # start
             /\ gm_regions' = insert_region(gm_regions, p,
                                  KvmRegion(kvm_region.region.slot,
                                            kvm_region.region.guest_phys_addr,
                                            kvm_region.region.memory_size))
             /\ fc_bitmap' = insert_region(fc_bitmap, p, kvm_region.bitmap)
    /\ UNCHANGED <<last_dump, last_op, kvm, vm, vm_input, uffd_vars, image_vars,
                   later_vars>>

\* Vm::memory_init (vm.rs) on the collection: the regions are registered in
\* the order of the collection, with the slots of zip(0u32..).
RegisterRegions ==
    /\ vm.pc = "created"
    /\ gm_regions # <<>>
    /\ \E fail_at \in 0..Len(gm_regions) :
         LET guest_mem == [i \in DOMAIN gm_regions |->
                             [start |-> gm_regions[i].guest_phys_addr,
                              size |-> gm_regions[i].memory_size,
                              bitmap |-> fc_bitmap[i]]]
         IN  \E r \in {memory_init(vm.max_memslots, guest_mem, fail_at)} :
               /\ vm' = [vm EXCEPT
                      !.pc = IF r.err = "none" THEN "initialized" ELSE "init_failed",
                      !.error = r.err,
                      !.guest_memory = r.guest_memory,
                      !.calls = r.calls]
               /\ vm_input' = [op |-> "memory_init", shared |-> guest_mem,
                                private |-> <<>>]
    /\ UNCHANGED <<gm_regions, fc_bitmap, last_dump, last_op, kvm, uffd_vars,
                   image_vars, later_vars>>

\* The slots under which the host has the region that starts at start.
RegisteredSlots(start) ==
    { vm.calls[c].region.slot : c \in { k \in DOMAIN vm.calls :
          /\ vm.calls[k].ok
          /\ vm.calls[k].region.guest_phys_addr = start } }

C38_AscendingAgrees ==
    /\ vm.pc = "initialized"
    /\ Len(gm_regions) > 1
    /\ \A i \in DOMAIN gm_regions :
            RegisteredSlots(gm_regions[i].guest_phys_addr) = {gm_regions[i].slot}

(***************************************************************************)
(* Specifications                                                          *)
(***************************************************************************)

\* The parts after Part V are idle.
TailIdle == InitrdIdle /\ MemfdIdle /\ ConcIdle

LaterIdle == MapperIdle /\ BounceIdle /\ SliceIdle /\ TailIdle

InitUffd == UffdInit /\ DumpIdle /\ ImageIdle /\ TrackIdle /\ VmIdle /\ LaterIdle
NextUffd == Attach \/ HandlePagefault \/ HandleRemove \/ HandleOther
SpecUffd == InitUffd /\ [][NextUffd]_vars

InitDump == UffdIdle /\ DumpInit /\ ImageIdle /\ TrackIdle /\ VmIdle /\ LaterIdle
NextDump == DumpDirty \/ RegionMarkDirty \/ ResetDirty
SpecDump == InitDump /\ [][NextDump]_vars

InitImage == UffdIdle /\ DumpInit /\ ImageInit /\ TrackIdle /\ VmIdle /\ LaterIdle
NextImage == GuestWrite \/ Dump \/ Restore
SpecImage == InitImage /\ [][NextImage]_vars

InitTrack == UffdIdle /\ TrackInit /\ ImageIdle /\ VmIdle /\ LaterIdle
NextTrack == MarkDirty \/ StoreDirtyBitmap \/ RegionMarkDirty \/ ResetDirty
SpecTrack == InitTrack /\ [][NextTrack]_vars

InitVm == UffdIdle /\ DumpIdle /\ ImageIdle /\ TrackIdle /\ VmInit /\ LaterIdle
NextVm ==
    \/ CreateCommon
    \/ VmNew
    \/ MemoryInit
    \/ VmMemoryInit
    \/ RegisterGuestMemfd
    \/ SetGuestMemoryPrivate
SpecVm == InitVm /\ [][NextVm]_vars

InitMapper ==
    UffdIdle /\ DumpIdle /\ ImageIdle /\ TrackIdle /\ VmIdle /\ MapperIdle /\ BounceIdle
    /\ SliceIdle /\ TailIdle
NextMapper == Create \/ FromRegions \/ CheckSerde
SpecMapper == InitMapper /\ [][NextMapper]_vars


InitBounce ==
    UffdIdle /\ DumpIdle /\ ImageIdle /\ TrackIdle /\ VmIdle /\ MapperIdle /\ BounceInit
    /\ SliceIdle /\ TailIdle
NextBounce == Activate \/ ReadVolatile \/ WriteVolatile \/ ReadExactVolatile \/ WriteAllVolatile
SpecBounce == InitBounce /\ [][NextBounce]_vars

InitSlice ==
    UffdIdle /\ SliceInit /\ ImageIdle /\ VmIdle /\ MapperIdle /\ BounceIdle /\ TailIdle
NextSlice == GetSlice \/ SliceWrite
SpecSlice == InitSlice /\ [][NextSlice]_vars

InitInitrd ==
    UffdIdle /\ DumpIdle /\ ImageIdle /\ TrackIdle /\ VmIdle /\ MapperIdle /\ BounceIdle
    /\ SliceIdle /\ InitrdInit /\ MemfdIdle /\ ConcIdle
NextInitrd == FromReader
SpecInitrd == InitInitrd /\ [][NextInitrd]_vars

InitMemfd ==
    UffdIdle /\ DumpIdle /\ ImageIdle /\ TrackIdle /\ VmIdle /\ MapperIdle /\ BounceIdle
    /\ SliceIdle /\ InitrdIdle /\ MemfdInit /\ ConcIdle
NextMemfd == CreateMemfd \/ SetLen \/ AddSeals
SpecMemfd == InitMemfd /\ [][NextMemfd]_vars

InitConc ==
    UffdIdle /\ ConcInit /\ ImageIdle /\ VmIdle /\ MapperIdle /\ BounceIdle /\ SliceIdle
    /\ InitrdIdle /\ MemfdIdle
NextConc ==
    \/ \E t \in 1..ConcThreads : MarkStep(t)
    \/ DumpStart
    \/ DumpScan
    \/ DumpEndRegion
    \/ DumpReset
SpecConc == InitConc /\ [][NextConc]_vars

\* A write through a slice followed by a differential dump, as in
\* tests::test_dump_dirty: slices are taken and written until the dump.
WriteGetSlice == last_dump = NoDump /\ GetSlice
WriteSlice == last_dump = NoDump /\ SliceWrite
WriteDumpDirty ==
    /\ slice # NoSlice /\ slice.op = "write"
    /\ last_dump = NoDump
    /\ DumpDirty
NextWrite == WriteGetSlice \/ WriteSlice \/ WriteDumpDirty
SpecWrite == InitSlice /\ [][NextWrite]_vars

InitSlots == UffdIdle /\ DumpIdle /\ ImageIdle /\ TrackIdle /\ SlotsInit /\ LaterIdle
NextSlots == InsertRegion \/ RegisterRegions
SpecSlots == InitSlots /\ [][NextSlots]_vars
====
